---------------------------- MODULE Spec2Model ----------------------------
(***************************************************************************)
(* Model of the multi-sheet data transfer service: the Transaction        *)
(* Tracker (src/src/services/transaction_service.py), the Configuration   *)
(* Store (src/src/services/config_service.py) and the /on_change pipeline *)
(* (src/src/api/routes.py) with its Error Retry Buffer                    *)
(* (src/src/api/dependencies.py).                                         *)
(***************************************************************************)
EXTENDS Integers, Sequences, FiniteSets, TLC

(***************************************************************************)
(* Bounds of the model.                                                    *)
(***************************************************************************)
\* longest transaction_id list of one call / one batch
MaxBatch == 2

\* number of writes to the storage files that fail
MaxWriteFailures == 1

\* number of sheet ids uuid4 hands out
MaxUuid == 2

\* rows of the destination range the target reader asks for
TableRows == 3

\* largest number of rows one call of get_cells_to_input asks for
MaxCount == 2

\* /on_change handlers that can be in flight at once
MaxInFlight == 2

\* MultiConfigCache(expiration_minutes=...): minutes of inactivity after
\* which a configuration expires
ExpirationMinutes == 1

\* last value of the clock (minutes): one tick past the expiration window
MaxTime == ExpirationMinutes + 1

\* SheetConfig.sheet_id: Optional[str] = None; generated ids are 1, 2, ...
NoSheetId == 0

\* sheet names (tenant keys) and transaction ids that occur
Sheets == {"S1", "S2"}
TxIds == {"t1", "t2"}

Range(s) == {s[i] : i \in DOMAIN s}

\* all sequences over S of length at most n
SeqsUpTo(S, n) == UNION {[1..k -> S] : k \in 0..n}

\* the orders in which a set can be listed
Perms(S) == {s \in [1..Cardinality(S) -> S] : Range(s) = S}

Min(a, b) == IF a < b THEN a ELSE b

\* number of positions of s holding x
Count(s, x) == Cardinality({i \in DOMAIN s : s[i] = x})

\* the empty mapping (a Python dict with no keys)
EmptyMap == [k \in {} |-> {}]

VARIABLES
    transaction_sets,   \* TransactionTracker._transaction_sets: sheet -> set of ids
    tx_file,            \* the storage file of the tracker: [status, data]
    tx_call,            \* the latest filter_new_transactions call and its result
    reported,           \* per sheet and id, how often the id was returned as new (capped at 2)
    config_cache,       \* MultiConfigCache.config_cache: global_settings and sheet_configs
    cfg_file,           \* the cache file of the configuration store: [status, data]
    cfg_call,           \* the latest configuration request and its outcome
    next_uuid,          \* the next sheet id uuid4 generates
    now,                \* time.time(), in minutes
    sheet_error_data,   \* ErrorData.sheet_error_data of the latest /on_change request
    req,                \* the latest /on_change request and what became of it
    held,               \* what the latest direct call of the store left in its caller's hands
    cells_call,         \* the latest direct call of get_cells_to_input and its result
    read_call,          \* the latest read of the target spreadsheet, attempt by attempt
    fmt_call,           \* the latest direct call of preparing_data and its result
    save_error_data,    \* the ErrorData every /on_change handler of src/main.py shares
    handlers,           \* the /on_change handlers of src/main.py in flight, slot by slot
    token_manager,      \* TokenManager: tokens, sheet_id_to_token, the latest call, uses per token
    write_failures      \* how many writes to a storage file have failed

tracker_vars == <<transaction_sets, tx_file, tx_call, reported>>
config_vars == <<config_cache, cfg_file, cfg_call, next_uuid, now>>
pipeline_vars == <<sheet_error_data, req>>
call_vars == <<held, cells_call, read_call, fmt_call, save_error_data, handlers,
               token_manager>>
vars == <<transaction_sets, tx_file, tx_call, reported,
          config_cache, cfg_file, cfg_call, next_uuid, now,
          sheet_error_data, req, held, cells_call,
          read_call,
          fmt_call,
          save_error_data,
          handlers, token_manager, write_failures>>

(***************************************************************************)
(* Transaction Tracker                                                     *)
(***************************************************************************)

\* The storage file is missing, unreadable as the expected JSON ("corrupt"),
\* holds a document sheet -> list of ids ("ok"), or still holds the document
\* of an earlier save after a save that could not open it ("stale": which
\* earlier document is not tracked).
TxFileMissing == [status |-> "missing", data |-> EmptyMap]
TxFileCorrupt == [status |-> "corrupt", data |-> EmptyMap]
TxFileStale == [status |-> "stale", data |-> EmptyMap]
TxFileOf(doc) == [status |-> "ok", data |-> doc]

\* _load_transactions: an absent file leaves the map empty, a file that
\* fails to load resets it to empty, a document has its lists turned to sets.
LoadTransactions(file) ==
    IF file.status = "ok"
    THEN [sheet \in DOMAIN file.data |-> Range(file.data[sheet])]
    ELSE EmptyMap

\* list(transactions): the ids of a set in some order (the model lists them
\* in one fixed order; _load_transactions turns the list back into a set)
ListOf(S) == CHOOSE s \in Perms(S) : TRUE

\* the document _save_transactions writes for a map
TxDocOf(sets) == [sheet \in DOMAIN sets |-> ListOf(sets[sheet])]

\* what a failed write leaves behind: the file as it was when it could not
\* be opened (a missing file stays missing, an unreadable one unreadable),
\* a truncated file when the dump failed part-way
FailedTxWrite(file) ==
    {IF file.status = "ok" THEN TxFileStale ELSE file, TxFileCorrupt}

\* _save_transactions: writes the whole map; an exception while opening or
\* writing is logged and swallowed.
SaveTransactionsOutcomes(sets, file, may_fail) ==
    {TxFileOf(TxDocOf(sets))} \cup (IF may_fail THEN FailedTxWrite(file) ELSE {})

\* a write may still fail (the model injects at most MaxWriteFailures)
MayFail == write_failures < MaxWriteFailures

\* the storage file holds exactly the in-memory map
TxFileCurrent(file, sets) == file.status = "ok" /\ LoadTransactions(file) = sets

\* the seen-set of a sheet, empty when the sheet has no entry
SeenOf(sets, sheet) == IF sheet \in DOMAIN sets THEN sets[sheet] ELSE {}

\* new_transactions = set(transaction_ids) - self._transaction_sets[sheet_name]
NewTransactions(sets, sheet, ids) == Range(ids) \ SeenOf(sets, sheet)

\* variant: one seen-set for all sheets, kept under every sheet's name
FilterSetsAllSheets(sets, sheet, ids) ==
    IF ids = <<>>
    THEN sets
    ELSE LET withEntry == IF sheet \in DOMAIN sets THEN sets ELSE sets @@ (sheet :> {})
         IN  [k \in DOMAIN withEntry |-> withEntry[k] \cup NewTransactions(sets, sheet, ids)]

\* variant: the new ids are never merged into the seen-set
FilterSetsNoUpdate(sets, sheet, ids) ==
    IF ids = <<>>
    THEN sets
    ELSE IF sheet \in DOMAIN sets THEN sets ELSE sets @@ (sheet :> {})

\* variant: an empty id list still creates the sheet's entry
FilterSetsNoEarlyReturn(sets, sheet, ids) ==
    LET withEntry == IF sheet \in DOMAIN sets THEN sets ELSE sets @@ (sheet :> {})
    IN  [withEntry EXCEPT ![sheet] = @ \cup NewTransactions(sets, sheet, ids)]

\* the in-memory map after filter_new_transactions(sheet, ids)
FilterSets(sets, sheet, ids) ==
    IF ids = <<>>
    THEN sets
    ELSE LET withEntry == IF sheet \in DOMAIN sets THEN sets ELSE sets @@ (sheet :> {})
         IN  [withEntry EXCEPT ![sheet] = @ \cup NewTransactions(sets, sheet, ids)]

\* variant: the new ids are returned in the order of the set
FilterReturnUnordered(sets, sheet, ids) ==
    IF ids = <<>>
    THEN <<>>
    ELSE CHOOSE s \in Perms(NewTransactions(sets, sheet, ids)) : TRUE

\* the list filter_new_transactions(sheet, ids) returns
FilterReturn(sets, sheet, ids) ==
    IF ids = <<>>
    THEN <<>>
    ELSE SelectSeq(ids, LAMBDA tx_id : tx_id \in NewTransactions(sets, sheet, ids))

\* the storage file after filter_new_transactions(sheet, ids): saved only
\* when there are new transactions
FilterFileOutcomes(sets, file, sheet, ids, may_fail) ==
    IF ids # <<>> /\ NewTransactions(sets, sheet, ids) # {}
    THEN SaveTransactionsOutcomes(FilterSets(sets, sheet, ids), file, may_fail)
    ELSE {file}

\* ghost: count the ids a call returned as new
Report(rep, sheet, ret) ==
    [rep EXCEPT ![sheet] = [t \in TxIds |-> Min(2, @[t] + Count(ret, t))]]

NoTxCall == [op |-> "none", sheet |-> "S1", ids |-> <<>>, seen_before |-> {}, ret |-> <<>>]

\* the storage files a tracker can find at start: none, an unreadable one,
\* or a document an earlier run saved (no sheet has an empty list)
InitTxFiles ==
    {TxFileMissing, TxFileCorrupt} \cup
    {TxFileOf(TxDocOf(sets)) :
        sets \in UNION {[D -> (SUBSET TxIds) \ {{}}] : D \in SUBSET Sheets}}

\* TransactionTracker.__init__
TrackerStart ==
    /\ tx_file \in InitTxFiles
    /\ transaction_sets = LoadTransactions(tx_file)
    /\ tx_call = NoTxCall
    /\ reported = [s \in Sheets |-> [t \in TxIds |-> 0]]

\* TransactionTracker.filter_new_transactions(sheet_name, transaction_ids)
FilterNewTransactions(sheet, ids) ==
    /\ transaction_sets' = FilterSets(transaction_sets, sheet, ids)
    /\ tx_file' \in FilterFileOutcomes(transaction_sets, tx_file, sheet, ids, MayFail)
    /\ tx_call' = [op |-> "filter", sheet |-> sheet, ids |-> ids,
                   seen_before |-> SeenOf(transaction_sets, sheet),
                   ret |-> FilterReturn(transaction_sets, sheet, ids)]
    /\ reported' = Report(reported, sheet, FilterReturn(transaction_sets, sheet, ids))

(***************************************************************************)
(* Configuration Store                                                     *)
(***************************************************************************)

\* what a lookup returns when nothing matches
None == [none |-> TRUE]

\* config_cache as __init__ sets it
DefaultCache ==
    [global_settings |-> [transfer_destination |-> "LAYER 1"],
     sheet_configs |-> <<>>]

\* the cache file, with the same states as the tracker's storage file
CfgFileMissing == [status |-> "missing", data |-> DefaultCache]
CfgFileCorrupt == [status |-> "corrupt", data |-> DefaultCache]
CfgFileStale == [status |-> "stale", data |-> DefaultCache]
CfgFileOf(cache) == [status |-> "ok", data |-> cache]

FailedCfgWrite(file) ==
    {IF file.status = "ok" THEN CfgFileStale ELSE file, CfgFileCorrupt}

\* _save_cache: dumps the whole cache; an exception is logged and
\* swallowed.
SaveCacheOutcomes(cache, file, may_fail) ==
    {CfgFileOf(cache)} \cup (IF may_fail THEN FailedCfgWrite(file) ELSE {})

\* the request bodies: SheetConfig.dict() and GlobalSettings.dict()
\* (one body leaves sheet_id out, the other carries the id of the first
\* configuration ever added)
BankProfiles ==
    {[sheet_id |-> NoSheetId, dana_used |-> "BCA", bank_destination |-> "BNI",
      bank_name_destination |-> "ANDI"],
     [sheet_id |-> 1, dana_used |-> "BRI", bank_destination |-> "",
      bank_name_destination |-> ""]}

SheetConfigInputs ==
    {[sheet_id |-> p.sheet_id, sheet_name |-> n, spreadsheet_ids |-> "T1",
      dana_used |-> p.dana_used, bank_destination |-> p.bank_destination,
      bank_name_destination |-> p.bank_name_destination] :
        n \in Sheets, p \in BankProfiles}

GlobalSettingsInputs ==
    {[transfer_destination |-> d] : d \in {"LAYER 1", "LAYER 2"}}

\* position of the first configuration with this id / name, 0 when absent
IndexOfId(cache, sheet_id) ==
    LET hits == {i \in DOMAIN cache.sheet_configs :
                    cache.sheet_configs[i].sheet_id = sheet_id}
    IN  IF hits = {} THEN 0 ELSE CHOOSE i \in hits : \A j \in hits : i <= j

IndexOfName(cache, sheet_name) ==
    LET hits == {i \in DOMAIN cache.sheet_configs :
                    cache.sheet_configs[i].sheet_name = sheet_name}
    IN  IF hits = {} THEN 0 ELSE CHOOSE i \in hits : \A j \in hits : i <= j

\* get_sheet_config(sheet_id)
GetSheetConfig(cache, sheet_id) ==
    IF IndexOfId(cache, sheet_id) = 0
    THEN None
    ELSE cache.sheet_configs[IndexOfId(cache, sheet_id)]

\* get_sheet_config_by_name(sheet_name)
GetSheetConfigByName(cache, sheet_name) ==
    IF IndexOfName(cache, sheet_name) = 0
    THEN None
    ELSE cache.sheet_configs[IndexOfName(cache, sheet_name)]

\* variant: the sheet id the request supplied is kept
StoredConfigKeepsId(config, uuid, time) ==
    config @@ [last_accessed |-> time]

\* add_sheet_config(config) with uuid the generated id: the stored entry
StoredConfig(config, uuid, time) ==
    [config EXCEPT !.sheet_id = uuid] @@ [last_accessed |-> time]

\* add_sheet_config(config): the cache afterwards
AddToCache(cache, config, uuid, time) ==
    [cache EXCEPT !.sheet_configs = Append(@, StoredConfig(config, uuid, time))]

\* variant: the entry takes the sheet id the request supplied
UpdateInCacheKeepsSuppliedId(cache, sheet_id, config) ==
    LET i == IndexOfId(cache, sheet_id)
    IN  IF i = 0
        THEN cache
        ELSE [cache EXCEPT !.sheet_configs[i] =
                StoredConfigKeepsId(config, sheet_id, cache.sheet_configs[i].last_accessed)]

\* update_sheet_config(sheet_id, config): the cache afterwards; the entry
\* keeps its id and its last_accessed
UpdateInCache(cache, sheet_id, config) ==
    LET i == IndexOfId(cache, sheet_id)
    IN  IF i = 0
        THEN cache
        ELSE [cache EXCEPT !.sheet_configs[i] =
                StoredConfig(config, sheet_id, cache.sheet_configs[i].last_accessed)]

\* variant: no configuration is stamped
TouchInCacheNever(cache, sheet_name, time) == cache

\* variant: every configuration is stamped, not only the named one
TouchInCacheAll(cache, sheet_name, time) ==
    [cache EXCEPT !.sheet_configs =
        [i \in DOMAIN @ |-> [@[i] EXCEPT !.last_accessed = time]]]

\* update_last_accessed(sheet_name): the cache afterwards
TouchInCache(cache, sheet_name, time) ==
    LET i == IndexOfName(cache, sheet_name)
    IN  IF i = 0
        THEN cache
        ELSE [cache EXCEPT !.sheet_configs[i].last_accessed = time]

\* delete_sheet_config(sheet_id): the cache afterwards
DeleteFromCache(cache, sheet_id) ==
    LET i == IndexOfId(cache, sheet_id)
    IN  IF i = 0
        THEN cache
        ELSE [cache EXCEPT !.sheet_configs =
                SubSeq(@, 1, i - 1) \o SubSeq(@, i + 1, Len(@))]

\* variant: a configuration expires when its age reaches the window
IsExpiredAtWindow(config, time) == time - config.last_accessed >= ExpirationMinutes

\* elapsed_minutes > self.expiration_minutes
IsExpired(config, time) == time - config.last_accessed > ExpirationMinutes

\* delete_expired_configs(): the cache afterwards, and the (id, name) pairs
SweepCache(cache, time) ==
    [cache EXCEPT !.sheet_configs = SelectSeq(@, LAMBDA c : ~IsExpired(c, time))]

DeletedInfo(cache, time) ==
    LET expired == SelectSeq(cache.sheet_configs, LAMBDA c : IsExpired(c, time))
    IN  [i \in DOMAIN expired |-> <<expired[i].sheet_id, expired[i].sheet_name>>]

\* update_global_settings(new_settings): the cache afterwards
MergeGlobalSettings(cache, settings) ==
    [cache EXCEPT !.global_settings =
        [k \in DOMAIN @ \cup DOMAIN settings |->
            IF k \in DOMAIN settings THEN settings[k] ELSE @[k]]]

\* variant: the add route does not look for the sheet name
AddConflictNever(cache, config) == FALSE

\* routes.add_sheet_config: a configuration with this sheet name exists
AddConflict(cache, config) ==
    GetSheetConfigByName(cache, config.sheet_name) # None

\* variant: the update route does not look for the sheet name
UpdateConflictNever(cache, sheet_id, config) == FALSE

\* variant: any configuration with the new name is a conflict, its own too
UpdateConflictOwnName(cache, sheet_id, config) ==
    GetSheetConfigByName(cache, config.sheet_name) # None

\* routes.update_sheet_config: the new sheet name belongs to another id
UpdateConflict(cache, sheet_id, config) ==
    /\ GetSheetConfigByName(cache, config.sheet_name) # None
    /\ GetSheetConfigByName(cache, config.sheet_name).sheet_id # sheet_id

NoCfgCall ==
    [op |-> "none", status |-> "none", config |-> None, sheet_id |-> NoSheetId,
     result |-> <<>>]

\* MultiConfigCache.__init__ with _load_cache: a missing file is created
\* with the defaults, an unreadable one is logged and the defaults kept,
\* a document with both sections is taken as the cache
ConfigStartFrom(file) ==
    /\ config_cache = IF file.status = "ok" THEN file.data ELSE DefaultCache
    /\ cfg_file \in IF file.status = "missing"
                    THEN SaveCacheOutcomes(DefaultCache, file, TRUE)
                    ELSE {file}
    /\ cfg_call = NoCfgCall
    /\ next_uuid = 1
    /\ now = 0

ConfigStart ==
    \E file \in {CfgFileMissing, CfgFileCorrupt, CfgFileOf(DefaultCache)} :
        ConfigStartFrom(file)

\* POST /add_sheet_config
AddSheetConfig(config) ==
    IF AddConflict(config_cache, config)
    THEN /\ cfg_call' = [op |-> "add", status |-> "conflict", config |-> config,
                         sheet_id |-> NoSheetId, result |-> <<>>]
         /\ UNCHANGED <<config_cache, cfg_file, next_uuid, now>>
    ELSE /\ next_uuid <= MaxUuid
         /\ config_cache' = AddToCache(config_cache, config, next_uuid, now)
         /\ cfg_file' \in SaveCacheOutcomes(config_cache', cfg_file, MayFail)
         /\ next_uuid' = next_uuid + 1
         /\ cfg_call' = [op |-> "add", status |-> "ok", config |-> config,
                         sheet_id |-> next_uuid, result |-> <<>>]
         /\ UNCHANGED now

\* PUT /update_sheet_config/{sheet_id}
UpdateSheetConfig(sheet_id, config) ==
    /\ UNCHANGED <<next_uuid, now>>
    /\ IF GetSheetConfig(config_cache, sheet_id) = None
       THEN /\ cfg_call' = [op |-> "update", status |-> "not_found", config |-> config,
                            sheet_id |-> sheet_id, result |-> <<>>]
            /\ UNCHANGED <<config_cache, cfg_file>>
       ELSE IF UpdateConflict(config_cache, sheet_id, config)
       THEN /\ cfg_call' = [op |-> "update", status |-> "conflict", config |-> config,
                            sheet_id |-> sheet_id, result |-> <<>>]
            /\ UNCHANGED <<config_cache, cfg_file>>
       ELSE /\ config_cache' = UpdateInCache(config_cache, sheet_id, config)
            /\ cfg_file' \in SaveCacheOutcomes(config_cache', cfg_file, MayFail)
            /\ cfg_call' = [op |-> "update", status |-> "ok", config |-> config,
                            sheet_id |-> sheet_id,
                            result |-> <<GetSheetConfig(config_cache, sheet_id)>>]

\* DELETE /delete_sheet_config/{sheet_id}
DeleteSheetConfig(sheet_id) ==
    /\ UNCHANGED <<next_uuid, now>>
    /\ IF GetSheetConfig(config_cache, sheet_id) = None
       THEN /\ cfg_call' = [op |-> "delete", status |-> "not_found", config |-> None,
                            sheet_id |-> sheet_id, result |-> <<>>]
            /\ UNCHANGED <<config_cache, cfg_file>>
       ELSE /\ config_cache' = DeleteFromCache(config_cache, sheet_id)
            /\ cfg_file' \in SaveCacheOutcomes(config_cache', cfg_file, MayFail)
            /\ cfg_call' = [op |-> "delete", status |-> "ok", config |-> None,
                            sheet_id |-> sheet_id,
                            result |-> <<GetSheetConfig(config_cache, sheet_id)>>]

\* MultiConfigCache.update_last_accessed(sheet_name)
UpdateLastAccessed(sheet_name) ==
    /\ UNCHANGED <<next_uuid, now>>
    /\ IF IndexOfName(config_cache, sheet_name) = 0
       THEN /\ cfg_call' = [op |-> "touch", status |-> "not_found", config |-> None,
                            sheet_id |-> NoSheetId, result |-> <<sheet_name>>]
            /\ UNCHANGED <<config_cache, cfg_file>>
       ELSE /\ config_cache' = TouchInCache(config_cache, sheet_name, now)
            /\ cfg_file' \in SaveCacheOutcomes(config_cache', cfg_file, MayFail)
            /\ cfg_call' = [op |-> "touch", status |-> "ok", config |-> None,
                            sheet_id |-> NoSheetId, result |-> <<sheet_name>>]

\* MultiConfigCache.delete_expired_configs()
DeleteExpiredConfigs ==
    /\ UNCHANGED <<next_uuid, now>>
    /\ config_cache' = SweepCache(config_cache, now)
    /\ cfg_file' \in IF DeletedInfo(config_cache, now) # <<>>
                     THEN SaveCacheOutcomes(config_cache', cfg_file, MayFail)
                     ELSE {cfg_file}
    /\ cfg_call' = [op |-> "sweep", status |-> "ok", config |-> None,
                    sheet_id |-> NoSheetId, result |-> DeletedInfo(config_cache, now)]

\* POST /update_global_settings
UpdateGlobalSettings(settings) ==
    /\ UNCHANGED <<next_uuid, now>>
    /\ config_cache' = MergeGlobalSettings(config_cache, settings)
    /\ cfg_file' \in SaveCacheOutcomes(config_cache', cfg_file, MayFail)
    /\ cfg_call' = [op |-> "global", status |-> "ok", config |-> None,
                    sheet_id |-> NoSheetId,
                    result |-> <<config_cache.global_settings>>]

\* the clock advances
Tick ==
    /\ now < MaxTime
    /\ now' = now + 1
    /\ UNCHANGED <<config_cache, cfg_file, cfg_call, next_uuid>>

(***************************************************************************)
(* Cell Allocator and Row Formatter (src/src/services/data_processor.py)   *)
(***************************************************************************)

\* first row of the destination range E13:E5002 / C13:C5002
RowStart == 13

\* A cell is a list of words ("" is the empty list); a raw row is the list
\* of its cells, tagged with the transaction id it arrived under.
Contains(cell, marker) ==
    \E i \in 1..(Len(cell) - Len(marker) + 1) :
        SubSeq(cell, i, i + Len(marker) - 1) = marker

KirimDanaKe == <<"KIRIM", "DANA", "KE">>
KirimUang == <<"KIRIM", "UANG">>

\* variant: every row within the lists counts as writable
IsWritableAlways(name_list, i) == TRUE

\* the row at list index i - 1 can take a name: beyond name_list, or empty
IsWritable(name_list, i) == i > Len(name_list) \/ name_list[i] = <<>>

\* variant: only a missing or empty bank cell is rewritten
NeedsBankUpdateIgnoresCode(bank_list, i, dana_used) ==
    i > Len(bank_list) \/ bank_list[i] = <<>>

\* the bank cell of the row at list index i - 1 has to be written: beyond
\* bank_list, empty, or holding another code than dana_used
NeedsBankUpdate(bank_list, i, dana_used) ==
    \/ i > Len(bank_list)
    \/ bank_list[i] = <<>>
    \/ bank_list[i][1] # dana_used

\* variant: the loop has no break and goes on to the end of its range
ScanCellsNoBreak(cell, stop, dana_used, total_range, bank_list, name_list, name_ranges, bank_ranges) ==
    LET cells == [k \in 1..(stop - cell) |-> cell + k - 1]
        Writable(c) == IsWritable(name_list, c - RowStart + 1)
        Bank(c) == Writable(c) /\ NeedsBankUpdate(bank_list, c - RowStart + 1, dana_used)
    IN  <<name_ranges \o SelectSeq(cells, Writable), bank_ranges \o SelectSeq(cells, Bank)>>

\* the loop of get_cells_to_input over range(13, 13 + max_check)
RECURSIVE ScanCells(_, _, _, _, _, _, _, _)
ScanCells(cell, stop, dana_used, total_range, bank_list, name_list, name_ranges, bank_ranges) ==
    IF cell >= stop
    THEN <<name_ranges, bank_ranges>>
    ELSE LET i == cell - RowStart + 1
             writable == IsWritable(name_list, i)
             bank_update == NeedsBankUpdate(bank_list, i, dana_used)
             names == IF writable THEN Append(name_ranges, cell) ELSE name_ranges
             banks == IF writable /\ bank_update
                      THEN Append(bank_ranges, cell) ELSE bank_ranges
         IN  IF writable /\ Len(names) = total_range
             THEN <<names, banks>>
             ELSE ScanCells(cell + 1, stop, dana_used, total_range, bank_list,
                            name_list, names, banks)

NoRanges == [ok |-> FALSE, name_ranges |-> <<>>, bank_ranges |-> <<>>]

\* variant: the fresh table is filled from the row after the first
FreshRangesOffByOne(total_range) == [k \in 1..total_range |-> RowStart + k]

\* variant: the fresh table is filled from row 1
FreshRangesFromRowOne(total_range) == [k \in 1..total_range |-> k]

\* list(range(13, 13 + total_range)): the rows of a table with no values
FreshRanges(total_range) == [k \in 1..total_range |-> RowStart + k - 1]

\* get_cells_to_input(dana_used, total_range, ...) on what the read of the
\* target spreadsheet returned
GetCellsToInput(dana_used, total_range, read) ==
    IF ~read.ok
    THEN NoRanges
    ELSE IF read.bank_list = <<>> /\ read.name_list = <<>>
    THEN [ok |-> TRUE,
          name_ranges |-> FreshRanges(total_range),
          bank_ranges |-> FreshRanges(total_range)]
    ELSE LET longest == IF Len(read.name_list) > Len(read.bank_list)
                        THEN Len(read.name_list) ELSE Len(read.bank_list)
             max_check == longest + total_range
             found == ScanCells(RowStart, RowStart + max_check, dana_used, total_range,
                                read.bank_list, read.name_list, <<>>, <<>>)
         IN  IF found[1] = <<>>
             THEN NoRanges
             ELSE [ok |-> TRUE, name_ranges |-> found[1], bank_ranges |-> found[2]]

\* the last row of the ranges 'E13:E5002' and 'C13:C5002' the reader asks
\* for, on a table of TableRows rows instead of 4990
RowEnd == RowStart + TableRows - 1

BankCodes == {p.dana_used : p \in BankProfiles}

\* what the read of the two columns can return: an error string, or the
\* bank column and the name column, each no longer than the range read
TargetValues ==
    {[ok |-> FALSE, bank_list |-> <<>>, name_list |-> <<>>]} \cup
    {[ok |-> TRUE, bank_list |-> b, name_list |-> n] :
        b \in SeqsUpTo({<<>>} \cup {<<c>> : c \in BankCodes}, TableRows),
        n \in SeqsUpTo({<<>>, <<"SETOR">>}, TableRows)}

NoCellsCall ==
    [called |-> FALSE, dana_used |-> "BCA", total_range |-> 1,
     read |-> [ok |-> FALSE, bank_list |-> <<>>, name_list |-> <<>>],
     result |-> NoRanges]

\* one call of get_cells_to_input with the inputs cells_call holds
CallGetCellsToInput ==
    /\ ~cells_call.called
    /\ cells_call' = [cells_call EXCEPT
            !.called = TRUE,
            !.result = GetCellsToInput(cells_call.dana_used, cells_call.total_range,
                                       cells_call.read)]

\* the cells preparing_data reads and writes: values[i][0], [1], [2], [5]
NameCell == 1
KreditCell == 2
ConfirmCell == 3
FeeCell == 6

\* variant: KIRIM UANG is rewritten whatever the configuration holds
FormatNameAnyBank(config, name) ==
    IF Contains(name, KirimDanaKe)
    THEN name \o <<config.transfer_destination>>
    ELSE IF Contains(name, KirimUang)
    THEN KirimDanaKe \o <<config.bank_destination, config.bank_name_destination,
                          config.transfer_destination>>
    ELSE name

\* values[i][0] after the label rules
FormatName(config, name) ==
    IF Contains(name, KirimDanaKe)
    THEN name \o <<config.transfer_destination>>
    ELSE IF Contains(name, KirimUang)
            /\ config.bank_destination # "" /\ config.bank_name_destination # ""
    THEN KirimDanaKe \o <<config.bank_destination, config.bank_name_destination,
                          config.transfer_destination>>
    ELSE name

\* values[i] after one pass of the loop body, written to row number `cell`
FormatCells(config, cells, cell) ==
    LET named == [cells EXCEPT ![NameCell] = FormatName(config, @)]
        kredit == [named EXCEPT ![KreditCell] = <<"=G", ToString(cell), "/1000">>]
    IN  IF kredit[FeeCell] # <<>> /\ ~Contains(kredit[NameCell], KirimDanaKe)
        THEN [kredit EXCEPT ![FeeCell] =
                <<"=IF(ISNUMBER(G:I", ToString(cell), "),">> \o @ \o <<",\"\")">>]
        ELSE kredit

\* variant: time, bank code and "-" are written for every row
RowInstructionsAlwaysConfirm(config, cells, cell) ==
    <<[range |-> <<"E", cell>>, values |-> cells],
      [range |-> <<"B", cell>>,
       values |-> <<<<"HH:MM:SS">>, <<config.dana_used>>, <<"-">>>>]>>

\* the instructions of one row: the row at column E and, when its
\* confirmation cell is empty, time, bank code and "-" at column B
RowInstructions(config, cells, cell) ==
    <<[range |-> <<"E", cell>>, values |-> cells]>> \o
    (IF cells[ConfirmCell] = <<>>
     THEN <<[range |-> <<"B", cell>>,
             values |-> <<<<"HH:MM:SS">>, <<config.dana_used>>, <<"-">>>>]>>
     ELSE <<>>)

\* a row too short for the cells the loop body touches raises IndexError
RaisesIndexError(cells) == Len(cells) < FeeCell

\* the first loop of preparing_data from row i on: the rows as rewritten in
\* place and the instructions collected
RECURSIVE FormatRows(_, _, _, _, _)
FormatRows(config, values, name_ranges, i, data) ==
    IF i > Len(name_ranges) \/ i > Len(values)
    THEN [raised |-> FALSE, values |-> values, data |-> data]
    ELSE IF RaisesIndexError(values[i].cells)
    THEN [raised |-> TRUE, values |-> values, data |-> data]
    ELSE LET cells == FormatCells(config, values[i].cells, name_ranges[i])
         IN  FormatRows(config, [values EXCEPT ![i].cells = cells], name_ranges, i + 1,
                        data \o RowInstructions(config, cells, name_ranges[i]))

\* variant: the cap is half the number of row instructions, taken once
BankInstructionsCapTakenOnce(config, bank_ranges, i, data) ==
    LET half == (Len(data) + 1) \div 2
        n == IF Len(bank_ranges) < half THEN Len(bank_ranges) ELSE half
    IN  data \o [k \in 1..n |-> [range |-> <<"C", bank_ranges[k]>>,
                                  values |-> <<<<config.dana_used>>>>]]

\* the second loop: one bank-code instruction at column C per bank range,
\* stopped when i >= len(data) / 2
RECURSIVE BankInstructions(_, _, _, _)
BankInstructions(config, bank_ranges, i, data) ==
    IF i > Len(bank_ranges) \/ 2 * (i - 1) >= Len(data)
    THEN data
    ELSE BankInstructions(config, bank_ranges, i + 1,
            Append(data, [range |-> <<"C", bank_ranges[i]>>,
                          values |-> <<<<config.dana_used>>>>]))

\* preparing_data(config, values, service): a list of instructions, or an
\* error string (ok = FALSE) when the read failed, no cell was found or the
\* loop raised; `values` are the rows as the call leaves them
PreparingData(config, values, read) ==
    LET ranges == GetCellsToInput(config.dana_used, Len(values), read)
        rows == FormatRows(config, values, ranges.name_ranges, 1, <<>>)
    IN  IF ~ranges.ok
        THEN [ok |-> FALSE, values |-> values, data |-> <<>>]
        ELSE IF rows.raised
        THEN [ok |-> FALSE, values |-> rows.values, data |-> <<>>]
        ELSE [ok |-> TRUE, values |-> rows.values,
              data |-> BankInstructions(config, ranges.bank_ranges, 1, rows.data)]

(***************************************************************************)
(* Target reader (src/src/spreadsheets/target.py)                          *)
(***************************************************************************)

\* max_retries and retry_delay of retrieve_target_spreadsheet_values
MaxRetries == 3
RetryDelay == 1

\* str(e) of what batchGet(...).execute() can raise, word by word
NetworkErrors ==
    {<<"getaddrinfo", "failed">>, <<"Connection", "reset">>,
     <<"connection", "refused">>, <<"Remote", "end", "closed", "connection">>}
OtherErrors == {<<"HttpError", "403">>, <<"Unable", "to", "parse", "range">>}

\* str.lower() on the words that occur
Lower(word) == IF word = "Connection" THEN "connection" ELSE word

\* variant: every error is retried
IsNetworkErrorAlways(e) == TRUE

\* "getaddrinfo failed" in str(e) or "connection" in str(e).lower()
IsNetworkError(e) ==
    \/ Contains(e, <<"getaddrinfo", "failed">>)
    \/ Contains([i \in DOMAIN e |-> Lower(e[i])], <<"connection">>)

\* what one execution of the request can do: return the two value ranges,
\* return a response without them, or raise
ExecuteOutcomes ==
    {[raised |-> FALSE, e |-> <<"values">>], [raised |-> FALSE, e |-> <<"no", "valueRanges">>]}
        \cup {[raised |-> TRUE, e |-> e] : e \in NetworkErrors \cup OtherErrors}

\* attempts: requests executed; slept: the delays of time.sleep, in order;
\* errors: the exceptions caught, in order; result: "none" while the loop
\* runs, then what the function returned
NoReadCall ==
    [spreadsheet_id |-> "T1", attempts |-> 0, slept |-> <<>>, errors |-> <<>>,
     result |-> "none"]

\* one iteration of `for attempt in range(max_retries)`
AttemptRead(outcome) ==
    /\ read_call.result = "none"
    /\ read_call.attempts < MaxRetries
    /\ read_call' =
        IF read_call.spreadsheet_id = ""
        THEN [read_call EXCEPT !.result = "not set"]
        ELSE IF ~outcome.raised
        THEN [read_call EXCEPT !.attempts = @ + 1, !.result = "values"]
        ELSE IF IsNetworkError(outcome.e) /\ read_call.attempts < MaxRetries - 1
        THEN [read_call EXCEPT !.attempts = @ + 1,
                               !.errors = Append(@, outcome.e),
                               !.slept = Append(@, RetryDelay * 2^read_call.attempts)]
        ELSE [read_call EXCEPT !.attempts = @ + 1,
                               !.errors = Append(@, outcome.e),
                               !.result = "failed"]

(***************************************************************************)
(* The store called directly: which of the dicts in a caller's hands are   *)
(* the very objects the store keeps (src/src/services/config_service.py)   *)
(***************************************************************************)

\* values: the dicts the caller holds after the call; shared[k] is the
\* position in sheet_configs of the store's object that values[k] is, or 0
\* when values[k] is an object of the caller's own
NoHeld == [op |-> "none", values |-> <<>>, shared |-> <<>>]

\* dict.copy() of a dict of strings and numbers: an object of its own
CopyOf(config) == [op |-> "get", values |-> <<config>>, shared |-> <<0>>]

\* get_global_settings(): a copy of the settings
CallGetGlobalSettings ==
    /\ held' = CopyOf(config_cache.global_settings)
    /\ UNCHANGED config_vars

\* get_all_sheet_configs(): list.copy() makes a new list of the same dicts
GetAllShared(cache) == [i \in DOMAIN cache.sheet_configs |-> i]

CallGetAllSheetConfigs ==
    /\ held' = [op |-> "get_all", values |-> config_cache.sheet_configs,
                shared |-> GetAllShared(config_cache)]
    /\ UNCHANGED config_vars

\* get_sheet_config(sheet_id): a copy of the entry, or None
CallGetSheetConfig(sheet_id) ==
    /\ held' = IF GetSheetConfig(config_cache, sheet_id) = None
               THEN [NoHeld EXCEPT !.op = "get"]
               ELSE CopyOf(GetSheetConfig(config_cache, sheet_id))
    /\ UNCHANGED config_vars

\* get_sheet_config_by_name(sheet_name): a copy of the entry, or None
CallGetSheetConfigByName(sheet_name) ==
    /\ held' = IF GetSheetConfigByName(config_cache, sheet_name) = None
               THEN [NoHeld EXCEPT !.op = "get"]
               ELSE CopyOf(GetSheetConfigByName(config_cache, sheet_name))
    /\ UNCHANGED config_vars

\* add_sheet_config(config): the id and the timestamp are written into the
\* caller's dict, and that dict is what the store appends
CallAddSheetConfig(config) ==
    /\ next_uuid <= MaxUuid
    /\ config_cache' = AddToCache(config_cache, config, next_uuid, now)
    /\ cfg_file' \in SaveCacheOutcomes(config_cache', cfg_file, MayFail)
    /\ next_uuid' = next_uuid + 1
    /\ held' = [op |-> "add", values |-> <<StoredConfig(config, next_uuid, now)>>,
                shared |-> <<Len(config_cache'.sheet_configs)>>]
    /\ UNCHANGED <<cfg_call, now>>

\* update_sheet_config(sheet_id, config): the caller's dict replaces the
\* entry; an unknown id leaves the dict and the store alone
CallUpdateSheetConfig(sheet_id, config) ==
    /\ config_cache' = UpdateInCache(config_cache, sheet_id, config)
    /\ cfg_file' \in IF IndexOfId(config_cache, sheet_id) = 0
                     THEN {cfg_file}
                     ELSE SaveCacheOutcomes(config_cache', cfg_file, MayFail)
    /\ held' = IF IndexOfId(config_cache, sheet_id) = 0
               THEN [op |-> "update", values |-> <<config>>, shared |-> <<0>>]
               ELSE [op |-> "update",
                     values |-> <<config_cache'.sheet_configs[IndexOfId(config_cache, sheet_id)]>>,
                     shared |-> <<IndexOfId(config_cache, sheet_id)>>]
    /\ UNCHANGED <<cfg_call, next_uuid, now>>

\* what the caller writes into a dict it holds
Scribble(config) == [dana_used |-> "SCRIBBLE"] @@ config

\* the caller assigns to a key of the k-th dict it holds: the object changes,
\* and with it the store when the object is the store's
MutateHeld(k) ==
    /\ k \in DOMAIN held.values
    /\ held' = [held EXCEPT !.op = "mutate", !.values[k] = Scribble(@)]
    /\ config_cache' =
            IF held.shared[k] = 0
            THEN config_cache
            ELSE [config_cache EXCEPT !.sheet_configs[held.shared[k]] = Scribble(@)]
    /\ UNCHANGED <<cfg_file, cfg_call, next_uuid, now>>

(***************************************************************************)
(* Error Retry Buffer (src/src/api/dependencies.py) and the /on_change     *)
(* pipeline (src/src/api/routes.py)                                        *)
(***************************************************************************)

\* ErrorData.__init__
NoErrorData == [k \in {} |-> <<>>]

\* get_error_data(): every call constructs a new ErrorData
GetErrorData == NoErrorData

\* ErrorData.has_data(sheet_name)
ErrorDataHasData(error_data, sheet_name) ==
    sheet_name \in DOMAIN error_data /\ Len(error_data[sheet_name]) > 0

\* ErrorData.get(sheet_name)
ErrorDataGet(error_data, sheet_name) ==
    IF sheet_name \in DOMAIN error_data THEN error_data[sheet_name] ELSE <<>>

\* ErrorData.remove(sheet_name)
ErrorDataRemove(error_data, sheet_name) ==
    [k \in DOMAIN error_data \ {sheet_name} |-> error_data[k]]

\* variant: the rows are saved under the name of every sheet
ErrorDataAddShared(error_data, sheet_name, data) ==
    [k \in DOMAIN error_data \cup Sheets |->
        (IF k \in DOMAIN error_data THEN error_data[k] ELSE <<>>) \o data]

\* ErrorData.add(sheet_name, data)
ErrorDataAdd(error_data, sheet_name, data) ==
    [k \in DOMAIN error_data \cup {sheet_name} |->
        IF k = sheet_name
        THEN ErrorDataGet(error_data, sheet_name) \o data
        ELSE error_data[k]]

\* the rows a source sheet sends: seven cells, or a row cut short
FullCells(tx) ==
    IF tx = "t1"
    THEN <<KirimDanaKe, <<>>, <<>>, <<>>, <<>>, <<"2500">>, <<>>>>
    ELSE <<KirimUang, <<>>, <<"OK">>, <<>>, <<>>, <<"6500">>, <<>>>>

Layouts == {"full", "short"}

\* a batch holds at most one row per known transaction, or a repeat
MaxRows == Cardinality(TxIds)

RowOfTx(tx, layout) ==
    [tx |-> tx,
     cells |-> IF layout = "full" THEN FullCells(tx) ELSE SubSeq(FullCells(tx), 1, 2)]

\* the OnChange bodies: sheet_name, transaction_id and values, one row per id
OnChangeInputs ==
    {[sheet_name |-> sheet, transaction_id |-> ids,
      values |-> [i \in DOMAIN ids |-> RowOfTx(ids[i], layout)]] :
        sheet \in Sheets, ids \in SeqsUpTo(TxIds, MaxRows), layout \in Layouts}

\* what retrieve_target_spreadsheet_values can return: an error string, two
\* empty lists, or the bank and name columns from row 13 on
ReadOutcomes ==
    {[ok |-> FALSE, bank_list |-> <<>>, name_list |-> <<>>],
     [ok |-> TRUE, bank_list |-> <<>>, name_list |-> <<>>],
     [ok |-> TRUE, bank_list |-> <<<<"BCA">>, <<"BCA">>>>,
                   name_list |-> <<<<"SETOR">>, <<>>>>]}

\* what the batchUpdate request can do: succeed, raise HttpError, or raise
\* something else
WriteOutcomes == {"ok", "http_error", "exception"}

\* {**sheet_config, **global_settings}
MergedConfig(sheet_config, global_settings) ==
    [sheet_name |-> sheet_config.sheet_name,
     dana_used |-> sheet_config.dana_used,
     spreadsheet_ids |-> sheet_config.spreadsheet_ids,
     bank_destination |-> sheet_config.bank_destination,
     bank_name_destination |-> sheet_config.bank_name_destination,
     transfer_destination |-> global_settings.transfer_destination]

\* new_indices and copy_data: the rows at the positions whose id is new
CopyData(data, new_transaction_ids) ==
    LET RECURSIVE Pick(_)
        Pick(i) ==
            IF i > Len(data.transaction_id) THEN <<>>
            ELSE (IF data.transaction_id[i] \in Range(new_transaction_ids)
                  THEN <<data.values[i]>> ELSE <<>>) \o Pick(i + 1)
    IN  Pick(1)

\* a row whose label carries neither marker
OtherCells == <<<<"SETOR", "TUNAI">>, <<>>, <<>>, <<>>, <<>>, <<"6500">>, <<>>>>

\* the rows preparing_data can be given
FormatterRows ==
    {RowOfTx(tx, layout) : tx \in TxIds, layout \in Layouts}
        \cup {[tx |-> "t1", cells |-> OtherCells]}

\* the merged configurations: every bank profile under every global
\* setting, and one with a destination bank but no destination name
FormatterConfigs ==
    LET merged == {MergedConfig(c, g) : c \in SheetConfigInputs, g \in GlobalSettingsInputs}
    IN  {c \in merged : c.sheet_name = "S1"}
            \cup {[c EXCEPT !.bank_name_destination = ""] :
                    c \in {m \in merged : m.sheet_name = "S1" /\ m.bank_destination # ""}}

NoFmtCall ==
    [called |-> FALSE,
     config |-> CHOOSE c \in FormatterConfigs : c.dana_used = "BCA" /\ c.bank_name_destination # ""
                                                /\ c.transfer_destination = "LAYER 1",
     values |-> <<>>,
     read |-> [ok |-> FALSE, bank_list |-> <<>>, name_list |-> <<>>],
     result |-> [ok |-> FALSE, values |-> <<>>, data |-> <<>>]]

\* one call of preparing_data with the inputs fmt_call holds
CallPreparingData ==
    /\ ~fmt_call.called
    /\ fmt_call' = [fmt_call EXCEPT
            !.called = TRUE,
            !.result = PreparingData(fmt_call.config, fmt_call.values, fmt_call.read)]

\* the rows of the target sheet a list of instructions writes at column E
DestinationRows(formatted_data) ==
    {formatted_data[k].range[2] :
        k \in {n \in DOMAIN formatted_data : formatted_data[n].range[1] = "E"}}

\* a slot holds the handler in flight: the batch's new rows, the saved rows
\* it took, the rows given to preparing_data as that call left them, and the
\* rows of the target sheet its instructions write
NoHandler ==
    [pc |-> "idle", sheet_name |-> "S1", new |-> <<>>, merged |-> <<>>, copy_data |-> <<>>,
     rows |-> {}]

NoHandlers == [slot \in 1..MaxInFlight |-> NoHandler]

NoReq ==
    [sheet_name |-> "S1", at |-> 0, result |-> "none", handed |-> <<>>, merged |-> <<>>,
     sent |-> <<>>, delivered |-> FALSE, notified |-> FALSE]

\* no request has been received; a specification that starts here makes no
\* direct call of the reader or the formatter and runs no handler of
\* src/main.py, and holds nothing in the variables that record them
PipelineStart ==
    /\ sheet_error_data = NoErrorData
    /\ req = NoReq
    /\ held = NoHeld
    /\ token_manager = <<>>
    /\ handlers = <<>>
    /\ save_error_data = NoErrorData
    /\ fmt_call = <<>>
    /\ read_call = <<>>

\* batch_update_spreadsheet on the request's outcome: the cell count, None
\* after HttpError, or the exception passed on to the caller
BatchUpdateSpreadsheet(write) ==
    CASE write = "ok" -> [raised |-> FALSE, result |-> "cells updated"]
      [] write = "http_error" -> [raised |-> FALSE, result |-> "None"]
      [] OTHER -> [raised |-> TRUE, result |-> "None"]

\* variant: the saved rows are read and left where they are
ErrorDataAfterMergeKeeps(error_data, sheet_name) == error_data

\* the ErrorData of the request after the merge of saved rows (lines 276-281)
ErrorDataAfterMerge(error_data, sheet_name) ==
    IF ErrorDataHasData(error_data, sheet_name)
    THEN ErrorDataRemove(error_data, sheet_name)
    ELSE error_data

\* POST /on_change (processing_data) past the configuration lookup and the
\* duplicate filter: merge of saved rows, formatting, notification, write
DeliverRows(data, config, new_transaction_ids) ==
    \E read \in ReadOutcomes :
    LET error_data == GetErrorData
        saved_error_data == IF ErrorDataHasData(error_data, data.sheet_name)
                            THEN ErrorDataGet(error_data, data.sheet_name) ELSE <<>>
        copy_data == CopyData(data, new_transaction_ids) \o saved_error_data
        merged_data == ErrorDataAfterMerge(error_data, data.sheet_name)
        formatted_data == PreparingData(config, copy_data, read)
        seen == [sheet_name |-> data.sheet_name, at |-> now, result |-> "none",
                 handed |-> copy_data, merged |-> saved_error_data,
                 sent |-> <<>>, delivered |-> FALSE, notified |-> FALSE]
    IN  IF ~formatted_data.ok
        THEN /\ req' = [seen EXCEPT !.result = "Data cannot be sent"]
             /\ sheet_error_data' = merged_data
        ELSE \E write \in WriteOutcomes :
             IF BatchUpdateSpreadsheet(write).raised
             THEN /\ req' = [seen EXCEPT !.result = "An unexpected error occurred",
                                         !.sent = formatted_data.data,
                                         !.notified = TRUE]
                  /\ sheet_error_data' =
                        ErrorDataAdd(merged_data, data.sheet_name, formatted_data.values)
             ELSE /\ req' = [seen EXCEPT !.result = "Data sent successfully",
                                         !.sent = formatted_data.data,
                                         !.notified = TRUE,
                                         !.delivered = (write = "ok")]
                  /\ sheet_error_data' = merged_data

\* variant: a batch without a new id goes on like any other
NothingNewNever(new_transaction_ids) == FALSE

\* `if not new_transaction_ids`: the batch holds no id the tracker had not seen
NothingNew(new_transaction_ids) == new_transaction_ids = <<>>

\* POST /on_change (processing_data)
ProcessingData(data) ==
    LET sheet_config == GetSheetConfigByName(config_cache, data.sheet_name)
        new_transaction_ids ==
            FilterReturn(transaction_sets, data.sheet_name, data.transaction_id)
    IN  IF sheet_config = None
        THEN /\ req' = [NoReq EXCEPT !.sheet_name = data.sheet_name, !.at = now,
                                     !.result = "Skipped due to missing configuration"]
             /\ sheet_error_data' = GetErrorData
             /\ UNCHANGED <<tracker_vars, config_vars>>
        ELSE /\ UpdateLastAccessed(data.sheet_name)
             /\ FilterNewTransactions(data.sheet_name, data.transaction_id)
             /\ IF NothingNew(new_transaction_ids)
                THEN /\ req' = [NoReq EXCEPT !.sheet_name = data.sheet_name, !.at = now,
                                             !.result = "Skipped duplicate transactions"]
                     /\ sheet_error_data' = GetErrorData
                ELSE DeliverRows(data,
                        MergedConfig(sheet_config, config_cache.global_settings),
                        new_transaction_ids)

(***************************************************************************)
(* The /on_change handlers of src/main.py, which share one ErrorData       *)
(* (save_error_data, main.py:378).  A handler is a coroutine on one event  *)
(* loop: it runs without interruption from one await to the next, and its  *)
(* only await is that of notify_clients, the one place where the loop may  *)
(* run another handler.  src/main.py formats with src/src/preparing_data.py,*)
(* an earlier copy of the formatter that rewrites the rows it is given in  *)
(* place by the same label rule; the handlers here format with the         *)
(* formatter of data_processor.py, as the handler of routes.py does.       *)
(***************************************************************************)

\* copy_data.extend(error_data): the new rows, then the saved rows
MergeSaved(copy_data, error_data, sheet_name) ==
    copy_data \o (IF ErrorDataHasData(error_data, sheet_name)
                  THEN ErrorDataGet(error_data, sheet_name) ELSE <<>>)

\* the batches the handlers receive: one row under one transaction id
HandlerTx == TxIds \cup {"t3"}
HandlerInputs ==
    {[sheet_name |-> sheet, transaction_id |-> <<tx>>, values |-> <<RowOfTx(tx, "full")>>] :
        sheet \in Sheets, tx \in HandlerTx}

\* processing_data of src/main.py from its start to the await of
\* notify_clients, or to an earlier return
ReceiveOnChange(slot, data) ==
    LET sheet_config == GetSheetConfigByName(config_cache, data.sheet_name)
        new_transaction_ids ==
            FilterReturn(transaction_sets, data.sheet_name, data.transaction_id)
        new == CopyData(data, new_transaction_ids)
        saved == IF ErrorDataHasData(save_error_data, data.sheet_name)
                 THEN ErrorDataGet(save_error_data, data.sheet_name) ELSE <<>>
        copy_data == MergeSaved(new, save_error_data, data.sheet_name)
    IN  /\ handlers[slot].pc = "idle"
        /\ IF sheet_config = None
           THEN UNCHANGED <<transaction_sets, tx_file, save_error_data, handlers>>
           ELSE /\ transaction_sets' =
                        FilterSets(transaction_sets, data.sheet_name, data.transaction_id)
                /\ tx_file' \in FilterFileOutcomes(transaction_sets, tx_file, data.sheet_name,
                                                   data.transaction_id, MayFail)
                /\ IF NothingNew(new_transaction_ids)
                   THEN UNCHANGED <<save_error_data, handlers>>
                   ELSE \E read \in ReadOutcomes :
                        LET formatted_data ==
                                PreparingData(MergedConfig(sheet_config,
                                                           config_cache.global_settings),
                                              copy_data, read)
                        IN  /\ save_error_data' =
                                    ErrorDataAfterMerge(save_error_data, data.sheet_name)
                            /\ handlers' =
                                    IF formatted_data.ok
                                    THEN [handlers EXCEPT ![slot] =
                                            [pc |-> "notified",
                                             sheet_name |-> data.sheet_name,
                                             new |-> new, merged |-> saved,
                                             copy_data |-> formatted_data.values,
                                             rows |-> DestinationRows(formatted_data.data)]]
                                    ELSE handlers
        /\ UNCHANGED <<tx_call, reported, config_vars>>

\* the same handler after the await: batch_update_spreadsheet, and the
\* except branch when it raises
ResumeOnChange(slot) ==
    /\ handlers[slot].pc = "notified"
    /\ \E write \in WriteOutcomes :
        save_error_data' =
            IF BatchUpdateSpreadsheet(write).raised
            THEN ErrorDataAdd(save_error_data, handlers[slot].sheet_name,
                              handlers[slot].copy_data)
            ELSE save_error_data
    /\ handlers' = [handlers EXCEPT ![slot] = NoHandler]
    /\ UNCHANGED <<tracker_vars, config_vars>>

(***************************************************************************)
(* Specifications                                                          *)
(***************************************************************************)

\* the tracker alone, called directly
InitTracker ==
    /\ write_failures = 0
    /\ TrackerStart
    /\ ConfigStartFrom(CfgFileOf(DefaultCache))
    /\ PipelineStart
    /\ cells_call = <<>>

\* ghost: a step in which a storage file was left behind the memory it
\* should hold counts as a failed write
CountWriteFailures ==
    write_failures' = write_failures
        + (IF transaction_sets' # transaction_sets
              /\ ~TxFileCurrent(tx_file', transaction_sets') THEN 1 ELSE 0)
        + (IF config_cache' # config_cache
              /\ cfg_file' # CfgFileOf(config_cache') THEN 1 ELSE 0)

TrackerNext ==
    \E sheet \in Sheets, ids \in SeqsUpTo(TxIds, MaxBatch) :
        FilterNewTransactions(sheet, ids) /\ UNCHANGED <<config_vars, pipeline_vars, call_vars>>
            /\ CountWriteFailures

TrackerSpec == InitTracker /\ [][TrackerNext]_vars

\* the configuration store behind its routes, the sweep and the clock
InitConfig ==
    /\ write_failures = 0
    /\ tx_file = TxFileMissing
    /\ transaction_sets = LoadTransactions(tx_file)
    /\ tx_call = NoTxCall
    /\ reported = [s \in Sheets |-> [t \in TxIds |-> 0]]
    /\ ConfigStart
    /\ PipelineStart
    /\ cells_call = <<>>

ConfigNext ==
    \/ \E config \in SheetConfigInputs :
            AddSheetConfig(config) /\ UNCHANGED <<tracker_vars, pipeline_vars, call_vars>>
            /\ CountWriteFailures
    \/ \E sheet_id \in 1..MaxUuid, config \in SheetConfigInputs :
            UpdateSheetConfig(sheet_id, config) /\ UNCHANGED <<tracker_vars, pipeline_vars, call_vars>>
            /\ CountWriteFailures
    \/ \E sheet_id \in 1..MaxUuid :
            DeleteSheetConfig(sheet_id) /\ UNCHANGED <<tracker_vars, pipeline_vars, call_vars>>
            /\ CountWriteFailures
    \/ \E sheet \in Sheets :
            UpdateLastAccessed(sheet) /\ UNCHANGED <<tracker_vars, pipeline_vars, call_vars>>
            /\ CountWriteFailures
    \/ \E settings \in GlobalSettingsInputs :
            UpdateGlobalSettings(settings) /\ UNCHANGED <<tracker_vars, pipeline_vars, call_vars>>
            /\ CountWriteFailures
    \/ DeleteExpiredConfigs /\ UNCHANGED <<tracker_vars, pipeline_vars, call_vars>> /\ CountWriteFailures
    \/ Tick /\ UNCHANGED <<tracker_vars, pipeline_vars, call_vars>> /\ CountWriteFailures

ConfigSpec == InitConfig /\ [][ConfigNext]_vars

\* the service: tenants are configured, each with its own bank profile, and
\* source sheets post their batches; the storage files take every write
TenantConfigs ==
    {c \in SheetConfigInputs : (c.sheet_name = "S1") <=> (c.sheet_id = NoSheetId)}

Init ==
    /\ write_failures = MaxWriteFailures
    /\ tx_file = TxFileMissing
    /\ transaction_sets = LoadTransactions(tx_file)
    /\ tx_call = NoTxCall
    /\ reported = [s \in Sheets |-> [t \in TxIds |-> 0]]
    /\ ConfigStartFrom(CfgFileOf(DefaultCache))
    /\ PipelineStart
    /\ cells_call = <<>>

Next ==
    \/ \E config \in TenantConfigs :
            AddSheetConfig(config) /\ UNCHANGED <<tracker_vars, pipeline_vars, call_vars>>
            /\ CountWriteFailures
    \/ \E data \in OnChangeInputs :
            ProcessingData(data) /\ UNCHANGED call_vars /\ CountWriteFailures

Spec == Init /\ [][Next]_vars

\* the store called directly by code that keeps what it passed and what it
\* got back; the cache file takes every write
StoreFrame ==
    UNCHANGED <<tracker_vars, pipeline_vars, cells_call, read_call, fmt_call,
                save_error_data, handlers, token_manager, write_failures>>

StoreNext ==
    \/ CallGetGlobalSettings /\ StoreFrame
    \/ CallGetAllSheetConfigs /\ StoreFrame
    \/ \E sheet_id \in 1..MaxUuid : CallGetSheetConfig(sheet_id) /\ StoreFrame
    \/ \E sheet \in Sheets : CallGetSheetConfigByName(sheet) /\ StoreFrame
    \/ \E config \in TenantConfigs : CallAddSheetConfig(config) /\ StoreFrame
    \/ \E sheet_id \in 1..MaxUuid, config \in TenantConfigs :
            CallUpdateSheetConfig(sheet_id, config) /\ StoreFrame
    \/ \E k \in 1..MaxUuid : MutateHeld(k) /\ StoreFrame

StoreSpec == Init /\ [][StoreNext]_vars

\* get_cells_to_input applied once to every table and every count
InitAllocator ==
    /\ write_failures = MaxWriteFailures
    /\ tx_file = TxFileMissing
    /\ transaction_sets = LoadTransactions(tx_file)
    /\ tx_call = NoTxCall
    /\ reported = [s \in Sheets |-> [t \in TxIds |-> 0]]
    /\ ConfigStartFrom(CfgFileOf(DefaultCache))
    /\ PipelineStart
    /\ cells_call \in {[NoCellsCall EXCEPT !.dana_used = d, !.total_range = n, !.read = r] :
                            d \in BankCodes, n \in 1..MaxCount, r \in TargetValues}

AllocatorNext ==
    CallGetCellsToInput /\ UNCHANGED <<tracker_vars, config_vars, pipeline_vars, held,
                                       read_call, fmt_call, save_error_data, handlers,
                                       token_manager, write_failures>>

AllocatorSpec == InitAllocator /\ [][AllocatorNext]_vars

\* retrieve_target_spreadsheet_values called once; the loop runs on until
\* the function returns
InitReader ==
    /\ write_failures = MaxWriteFailures
    /\ tx_file = TxFileMissing
    /\ transaction_sets = LoadTransactions(tx_file)
    /\ tx_call = NoTxCall
    /\ reported = [s \in Sheets |-> [t \in TxIds |-> 0]]
    /\ ConfigStartFrom(CfgFileOf(DefaultCache))
    /\ sheet_error_data = NoErrorData
    /\ req = NoReq
    /\ held = NoHeld
    /\ token_manager = <<>>
    /\ handlers = <<>>
    /\ save_error_data = NoErrorData
    /\ fmt_call = <<>>
    /\ cells_call = <<>>
    /\ read_call \in {[NoReadCall EXCEPT !.spreadsheet_id = id] : id \in {"", "T1"}}

ReaderNext ==
    \E outcome \in ExecuteOutcomes :
        AttemptRead(outcome) /\ UNCHANGED <<tracker_vars, config_vars, pipeline_vars, held,
                                            cells_call, fmt_call, save_error_data, handlers,
                                            token_manager, write_failures>>

ReaderSpec == InitReader /\ [][ReaderNext]_vars /\ WF_vars(ReaderNext)

\* preparing_data applied once to every configuration, batch and table
InitFormatter ==
    /\ write_failures = MaxWriteFailures
    /\ tx_file = TxFileMissing
    /\ transaction_sets = LoadTransactions(tx_file)
    /\ tx_call = NoTxCall
    /\ reported = [s \in Sheets |-> [t \in TxIds |-> 0]]
    /\ ConfigStartFrom(CfgFileOf(DefaultCache))
    /\ sheet_error_data = NoErrorData
    /\ req = NoReq
    /\ held = NoHeld
    /\ token_manager = <<>>
    /\ handlers = <<>>
    /\ save_error_data = NoErrorData
    /\ cells_call = <<>>
    /\ read_call = <<>>
    /\ fmt_call \in {[NoFmtCall EXCEPT !.config = c, !.values = v, !.read = r] :
                        c \in FormatterConfigs, v \in SeqsUpTo(FormatterRows, MaxRows),
                        r \in ReadOutcomes}

FormatterNext ==
    CallPreparingData /\ UNCHANGED <<tracker_vars, config_vars, pipeline_vars, held,
                                     cells_call, read_call, save_error_data, handlers,
                                     token_manager, write_failures>>

FormatterSpec == InitFormatter /\ [][FormatterNext]_vars

\* the service over time: tenants are configured, source sheets post
\* batches, the clock advances and expired configurations are swept
KeepAliveInputs ==
    {data \in OnChangeInputs : data.transaction_id = <<"t1">> /\ Len(data.values[1].cells) > 2}

KeepAliveFrame == UNCHANGED <<tracker_vars, pipeline_vars, call_vars>> /\ CountWriteFailures

KeepAliveNext ==
    \/ \E config \in TenantConfigs : AddSheetConfig(config) /\ KeepAliveFrame
    \/ \E data \in KeepAliveInputs :
            ProcessingData(data) /\ UNCHANGED call_vars /\ CountWriteFailures
    \/ DeleteExpiredConfigs /\ KeepAliveFrame
    \/ Tick /\ KeepAliveFrame

KeepAliveSpec == Init /\ [][KeepAliveNext]_vars

\* the handlers of src/main.py on one event loop; the cache file read at
\* start holds the configuration of one tenant
OneTenant ==
    AddToCache(DefaultCache, CHOOSE c \in TenantConfigs : c.sheet_name = "S1", MaxUuid + 1, 0)

InitHandlers ==
    /\ write_failures = MaxWriteFailures
    /\ tx_file = TxFileMissing
    /\ transaction_sets = LoadTransactions(tx_file)
    /\ tx_call = NoTxCall
    /\ reported = [s \in Sheets |-> [t \in TxIds |-> 0]]
    /\ ConfigStartFrom(CfgFileOf(OneTenant))
    /\ sheet_error_data = NoErrorData
    /\ req = NoReq
    /\ held = NoHeld
    /\ token_manager = <<>>
    /\ handlers = NoHandlers
    /\ save_error_data = NoErrorData
    /\ fmt_call = <<>>
    /\ cells_call = <<>>
    /\ read_call = <<>>

HandlersFrame ==
    UNCHANGED <<pipeline_vars, held, cells_call, read_call, fmt_call, token_manager,
                write_failures>>

HandlersNext ==
    \/ \E slot \in 1..MaxInFlight, data \in HandlerInputs :
            ReceiveOnChange(slot, data) /\ HandlersFrame
    \/ \E slot \in 1..MaxInFlight : ResumeOnChange(slot) /\ HandlersFrame

HandlersSpec == InitHandlers /\ [][HandlersNext]_vars

\* the same handlers taken one at a time, for two tenants
TwoTenants ==
    AddToCache(OneTenant, CHOOSE c \in TenantConfigs : c.sheet_name = "S2", MaxUuid + 2, 0)

InitTwoTenants ==
    /\ write_failures = MaxWriteFailures
    /\ tx_file = TxFileMissing
    /\ transaction_sets = LoadTransactions(tx_file)
    /\ tx_call = NoTxCall
    /\ reported = [s \in Sheets |-> [t \in TxIds |-> 0]]
    /\ ConfigStartFrom(CfgFileOf(TwoTenants))
    /\ sheet_error_data = NoErrorData
    /\ req = NoReq
    /\ held = NoHeld
    /\ token_manager = <<>>
    /\ handlers = NoHandlers
    /\ save_error_data = NoErrorData
    /\ fmt_call = <<>>
    /\ cells_call = <<>>
    /\ read_call = <<>>

TwoTenantsNext ==
    \/ \E data \in HandlerInputs : ReceiveOnChange(1, data) /\ HandlersFrame
    \/ ResumeOnChange(1) /\ HandlersFrame

TwoTenantsSpec == InitTwoTenants /\ [][TwoTenantsNext]_vars

(***************************************************************************)
(* The one-time tokens (services/token_service.py) and the route that      *)
(* spends them.  TokenManager.tokens maps a token to its usage_left and    *)
(* the sheet ids added with it; _save_tokens writes both maps to           *)
(* data/token_info.json, which only __init__ reads, and swallows every     *)
(* error, so the file is left out.  The route runs from validate_token to  *)
(* associate_sheet_id without an await: it is one step.                    *)
(***************************************************************************)
Tokens == {"k1", "k2"}

\* what a request may carry in its path: a token of the manager or not
TokenInputs == Tokens \cup {"kx"}

NoTokenCall == [op |-> "none", token |-> "", ok |-> FALSE, detail |-> ""]

\* TokenManager.validate_token: <<is_valid, error_message>>
ValidateToken(tokens, token) ==
    IF token \notin DOMAIN tokens
    THEN <<FALSE, "Invalid token">>
    ELSE IF tokens[token].usage_left <= 0
         THEN <<FALSE, "Token usage limit exceeded">>
         ELSE <<TRUE, "">>

\* TokenManager.use_token: the value it returns
UseTokenReturns(tokens, token) ==
    /\ token \in DOMAIN tokens
    /\ tokens[token].usage_left > 0

\* variant: use_token returns without expiring the token
TokensAfterUseKeeps(tokens, token) == tokens

\* TokenManager.use_token: the tokens it leaves
TokensAfterUse(tokens, token) ==
    IF UseTokenReturns(tokens, token)
    THEN [tokens EXCEPT ![token].usage_left = 0]
    ELSE tokens

\* TokenManager.associate_sheet_id
AssociateSheetId(manager, token, sheet_id) ==
    IF token \in DOMAIN manager.tokens
    THEN [manager EXCEPT
            !.tokens[token].sheet_ids =
                IF \E i \in DOMAIN @ : @[i] = sheet_id THEN @ ELSE Append(@, sheet_id),
            !.sheet_id_to_token =
                [k \in DOMAIN @ \cup {sheet_id} |-> IF k = sheet_id THEN token ELSE @[k]]]
    ELSE manager

\* ghost: one more use_token call of this token has returned True (capped at 2)
CountUse(manager, token) ==
    IF UseTokenReturns(manager.tokens, token)
    THEN [manager EXCEPT !.uses[token] = Min(@ + 1, 2)]
    ELSE manager

\* a direct call of validate_token
CallValidateToken(token) ==
    /\ token_manager' =
         [token_manager EXCEPT
            !.call = [op |-> "validate_token", token |-> token,
                      ok |-> ValidateToken(token_manager.tokens, token)[1],
                      detail |-> ValidateToken(token_manager.tokens, token)[2]]]
    /\ UNCHANGED config_vars

\* a direct call of use_token
CallUseToken(token) ==
    /\ token_manager' =
         [CountUse(token_manager, token) EXCEPT
            !.tokens = TokensAfterUse(token_manager.tokens, token),
            !.call = [op |-> "use_token", token |-> token,
                      ok |-> UseTokenReturns(token_manager.tokens, token),
                      detail |-> ""]]
    /\ UNCHANGED config_vars

\* POST /add_sheet_config/{token}
AddSheetConfigWithToken(token, config) ==
    LET valid == ValidateToken(token_manager.tokens, token)
        refused(detail) ==
            [token_manager EXCEPT
                !.call = [op |-> "add", token |-> token, ok |-> FALSE, detail |-> detail]]
        used == [CountUse(token_manager, token) EXCEPT
                    !.tokens = TokensAfterUse(token_manager.tokens, token)]
    IN  IF ~valid[1]
        THEN /\ token_manager' = refused(valid[2])
             /\ UNCHANGED config_vars
        ELSE IF AddConflict(config_cache, config)
        THEN /\ token_manager' = refused("already exists")
             /\ AddSheetConfig(config)
        ELSE IF ~UseTokenReturns(token_manager.tokens, token)
        THEN /\ token_manager' = refused("Failed to use token")
             /\ UNCHANGED config_vars
        ELSE /\ AddSheetConfig(config)
             /\ token_manager' =
                  [AssociateSheetId(used, token, next_uuid) EXCEPT
                     !.call = [op |-> "add", token |-> token, ok |-> TRUE, detail |-> ""]]

\* data/token_info.json as an earlier run left it: every token it holds was
\* generated with one use and has it still or has spent it
InitTokens ==
    /\ write_failures = MaxWriteFailures
    /\ tx_file = TxFileMissing
    /\ transaction_sets = LoadTransactions(tx_file)
    /\ tx_call = NoTxCall
    /\ reported = [s \in Sheets |-> [t \in TxIds |-> 0]]
    /\ ConfigStartFrom(CfgFileOf(DefaultCache))
    /\ sheet_error_data = NoErrorData
    /\ req = NoReq
    /\ held = <<>>
    /\ \E left \in [Tokens -> {0, 1}] :
          token_manager =
              [tokens |-> [t \in Tokens |-> [usage_left |-> left[t], sheet_ids |-> <<>>]],
               sheet_id_to_token |-> EmptyMap,
               call |-> NoTokenCall,
               uses |-> [t \in TokenInputs |-> 0]]
    /\ handlers = <<>>
    /\ save_error_data = NoErrorData
    /\ fmt_call = <<>>
    /\ cells_call = <<>>
    /\ read_call = <<>>

TokensFrame ==
    /\ UNCHANGED <<tracker_vars, pipeline_vars, held, cells_call, read_call, fmt_call,
                   save_error_data, handlers>>
    /\ CountWriteFailures

TokensNext ==
    \/ \E token \in TokenInputs : CallValidateToken(token) /\ TokensFrame
    \/ \E token \in TokenInputs : CallUseToken(token) /\ TokensFrame
    \/ \E token \in TokenInputs, config \in TenantConfigs :
            AddSheetConfigWithToken(token, config) /\ TokensFrame
    \/ \E config \in TenantConfigs :
            AddSheetConfig(config) /\ UNCHANGED token_manager /\ TokensFrame

TokensSpec == InitTokens /\ [][TokensNext]_vars

(***************************************************************************)
(* Properties of the Transaction Tracker                                   *)
(***************************************************************************)

\* C3: filter_new_transactions(tenant, ids) returns exactly the elements of
\* ids that were not in the tenant's seen-set before the call, in the order
\* in which they appear in ids.
C3_FilterReturnsUnseenInOrder ==
    tx_call.op = "filter" =>
        tx_call.ret = SelectSeq(tx_call.ids, LAMBDA x : x \notin tx_call.seen_before)

\* a call that dropped a seen id and kept an unseen one, and a call that
\* returned two ids in the order received
C3_Witness ==
    /\ tx_call.op = "filter"
    /\ tx_call.ids = <<"t2", "t1">>
    /\ tx_call.seen_before = {"t2"}
    /\ tx_call.ret = <<"t1">>

\* C4: over the calls made for one tenant no transaction id is returned as
\* new more than once in total (the id sequences may overlap and may repeat
\* ids), and a call returns exactly the ids not seen before it.
C4_EachIdReportedAtMostOnce ==
    /\ \A s \in Sheets, t \in TxIds : reported[s][t] <= 1
    /\ tx_call.op = "filter" =>
            Range(tx_call.ret) = Range(tx_call.ids) \ tx_call.seen_before

\* C5: when filter_new_transactions returns, every returned id is in the
\* tenant's seen-set; no step removes an id (or a tenant) from the seen-sets;
\* and the same call made again returns the empty list.
C5_ReturnedIdsAreSeen ==
    /\ [](tx_call.op = "filter" =>
            /\ Range(tx_call.ret) \subseteq SeenOf(transaction_sets, tx_call.sheet)
            /\ FilterReturn(transaction_sets, tx_call.sheet, tx_call.ids) = <<>>)
    /\ [][\A s \in DOMAIN transaction_sets :
            /\ s \in DOMAIN transaction_sets'
            /\ transaction_sets[s] \subseteq transaction_sets'[s]]_vars

\* a call that returned ids which are now recorded
C5_Witness ==
    /\ tx_call.op = "filter"
    /\ tx_call.ret = <<"t2", "t1">>
    /\ transaction_sets[tx_call.sheet] = {"t1", "t2"}

\* C6: a call with an empty id list returns the empty list and changes
\* neither the in-memory seen-sets (no tenant entry appears) nor the
\* storage file.
C6_EmptyInputNoMutation ==
    [][(tx_call'.op = "filter" /\ tx_call'.ids = <<>>) =>
            /\ tx_call'.ret = <<>>
            /\ UNCHANGED <<transaction_sets, tx_file>>]_vars

\* an empty call for a sheet that has no entry, which still has none
C6_Witness ==
    /\ tx_call.op = "filter"
    /\ tx_call.ids = <<>>
    /\ tx_call.sheet \notin DOMAIN transaction_sets
    /\ tx_file.status = "missing"

\* C7: after every call that changes a seen-set the storage file holds the
\* in-memory map, and a tracker started on a missing or unreadable file has
\* an empty map.
C7_PersistedAfterEveryMutation ==
    /\ (tx_call.op = "filter" /\ tx_call.ret # <<>>) =>
            /\ tx_file.status = "ok"
            /\ LoadTransactions(tx_file) = transaction_sets
    /\ (tx_call.op = "none" /\ tx_file.status # "ok") =>
            transaction_sets = EmptyMap

(***************************************************************************)
(* Properties of the Configuration Store                                   *)
(***************************************************************************)

\* C8: an add request whose sheet_name is that of a configuration already in
\* the store is answered with a conflict and leaves the store, in memory and
\* on file, as it was.
C8_AddDuplicateNameConflicts ==
    [][(cfg_call' # cfg_call /\ cfg_call'.op = "add"
            /\ GetSheetConfigByName(config_cache, cfg_call'.config.sheet_name) # None)
        => /\ cfg_call'.status = "conflict"
           /\ UNCHANGED <<config_cache, cfg_file>>]_vars

C8_Witness ==
    /\ cfg_call.op = "add" /\ cfg_call.status = "conflict"
    /\ Len(config_cache.sheet_configs) = 1
    /\ config_cache.sheet_configs[1].sheet_name = cfg_call.config.sheet_name
    /\ config_cache.sheet_configs[1].dana_used # cfg_call.config.dana_used

\* C9: in every reachable state of the store no two configurations have the
\* same sheet_name.
C9_SheetNamesUnique ==
    \A i, j \in DOMAIN config_cache.sheet_configs :
        config_cache.sheet_configs[i].sheet_name
            = config_cache.sheet_configs[j].sheet_name => i = j

C9_Witness ==
    /\ Len(config_cache.sheet_configs) = 2
    /\ cfg_call.op = "update" /\ cfg_call.status = "conflict"

\* C10: after a successful add, a lookup by the sheet_name returns a
\* configuration with the generated, non-empty sheet id and with every
\* supplied field as supplied.
C10_AddThenGetByName ==
    (cfg_call.op = "add" /\ cfg_call.status = "ok") =>
        LET found == GetSheetConfigByName(config_cache, cfg_call.config.sheet_name)
        IN  /\ found # None
            /\ found.sheet_id = cfg_call.sheet_id
            /\ found.sheet_id # NoSheetId
            /\ \A f \in {"sheet_name", "spreadsheet_ids", "dana_used",
                         "bank_destination", "bank_name_destination"} :
                    found[f] = cfg_call.config[f]

C10_Witness ==
    /\ cfg_call.op = "add" /\ cfg_call.status = "ok"
    /\ cfg_call.config.sheet_id = 1 /\ cfg_call.sheet_id = 2
    /\ GetSheetConfigByName(config_cache, cfg_call.config.sheet_name).sheet_id = 2

\* C11: an update of an id the store does not hold is answered not-found, an
\* update whose new sheet_name belongs to another id is answered with a
\* conflict, and both leave the store as it was; an update that keeps the
\* configuration's own name goes through.
C11_UpdateNotFoundOrConflict ==
    [][(cfg_call'.op = "update" /\ now' = now) =>
        LET sheet_id == cfg_call'.sheet_id
            named == GetSheetConfigByName(config_cache, cfg_call'.config.sheet_name)
        IN  IF GetSheetConfig(config_cache, sheet_id) = None
            THEN /\ cfg_call'.status = "not_found"
                 /\ UNCHANGED <<config_cache, cfg_file>>
            ELSE IF named # None /\ named.sheet_id # sheet_id
            THEN /\ cfg_call'.status = "conflict"
                 /\ UNCHANGED <<config_cache, cfg_file>>
            ELSE cfg_call'.status = "ok"]_vars

C11_Witness ==
    /\ cfg_call.op = "update" /\ cfg_call.status = "ok"
    /\ Len(config_cache.sheet_configs) = 2
    /\ cfg_call.result[1].sheet_name = cfg_call.config.sheet_name
    /\ cfg_call.result[1].dana_used # cfg_call.config.dana_used

\* C12: a touch stamps the first configuration with the given sheet_name
\* with the current time and changes nothing else in the store; when no
\* configuration has the name it reports failure and the store is as it was.
C12_TouchStampsOnlyNamed ==
    [][(cfg_call'.op = "touch" /\ now' = now) =>
        LET i == IndexOfName(config_cache, cfg_call'.result[1])
        IN  IF i = 0
            THEN /\ cfg_call'.status = "not_found"
                 /\ UNCHANGED <<config_cache, cfg_file>>
            ELSE /\ cfg_call'.status = "ok"
                 /\ config_cache'.global_settings = config_cache.global_settings
                 /\ DOMAIN config_cache'.sheet_configs = DOMAIN config_cache.sheet_configs
                 /\ config_cache'.sheet_configs[i].last_accessed = now
                 /\ \A j \in DOMAIN config_cache.sheet_configs :
                        [config_cache'.sheet_configs[j] EXCEPT !.last_accessed = 0]
                            = [config_cache.sheet_configs[j] EXCEPT !.last_accessed = 0]
                 /\ \A j \in DOMAIN config_cache.sheet_configs \ {i} :
                        config_cache'.sheet_configs[j] = config_cache.sheet_configs[j]]_vars

C12_Witness ==
    /\ cfg_call.op = "touch" /\ cfg_call.status = "ok"
    /\ Len(config_cache.sheet_configs) = 2
    /\ now > 0
    /\ config_cache.sheet_configs[2].sheet_name = cfg_call.result[1]
    /\ config_cache.sheet_configs[2].last_accessed = now
    /\ config_cache.sheet_configs[1].last_accessed < now

\* C13: a sweep removes exactly the configurations whose age is strictly
\* greater than the window, returns their (id, name) pairs in order, and
\* leaves every other configuration as it was; a configuration touched
\* since it aged is young again and stays.
C13_SweepRemovesExactlyExpired ==
    [][(cfg_call'.op = "sweep" /\ now' = now) =>
        LET old == config_cache.sheet_configs
            gone == {i \in DOMAIN old : now - old[i].last_accessed > ExpirationMinutes}
            Kept(c) == \E i \in DOMAIN old \ gone : old[i] = c
            Gone(c) == \E i \in gone : old[i] = c
        IN  /\ config_cache'.sheet_configs = SelectSeq(old, Kept)
            /\ config_cache'.global_settings = config_cache.global_settings
            /\ cfg_call'.result =
                [k \in 1..Len(SelectSeq(old, Gone)) |->
                    <<SelectSeq(old, Gone)[k].sheet_id,
                      SelectSeq(old, Gone)[k].sheet_name>>]]_vars

C13_Witness ==
    /\ cfg_call.op = "sweep" /\ Len(cfg_call.result) = 1
    /\ cfg_call.result[1][1] = 2
    /\ Len(config_cache.sheet_configs) = 1
    /\ config_cache.sheet_configs[1].sheet_id = 1
    /\ config_cache.sheet_configs[1].last_accessed = now

\* C14: nothing a caller holds after a call of the store is shared with the
\* store: when the caller mutates a value an accessor returned, or the config
\* it passed to add or update, the store, and so what every later accessor
\* call returns, stays as it was.
C14_CallerSharesNothing ==
    [][held'.op = "mutate" => config_cache' = config_cache]_vars

\* C15: whenever a mutating operation of the store reports success, the
\* cache file holds exactly the in-memory store.
C15_SuccessMeansPersisted ==
    (/\ cfg_call.status = "ok"
     /\ cfg_call.op \in {"add", "update", "touch", "delete", "sweep", "global"}
     /\ cfg_call.op = "sweep" => cfg_call.result # <<>>)
        => cfg_file = CfgFileOf(config_cache)


(***************************************************************************)
(* Properties of the cell allocator                                        *)
(***************************************************************************)

\* the rows of the scaled table, as list indices, that can take a name
WritableIn(name_list, rows) ==
    {r \in rows : \/ r - RowStart + 1 > Len(name_list)
                  \/ name_list[r - RowStart + 1] = <<>>}

IsIncreasing(rows) == \A k \in 1..(Len(rows) - 1) : rows[k] < rows[k + 1]

\* C16: on a table whose two columns hold no value at all, the allocator
\* asked for n rows returns the rows 13 .. 13 + n - 1 as the writable rows
\* and the same rows as the bank-update rows.
C16_EmptyTableStartsAtRow13 ==
    (/\ cells_call.called
     /\ cells_call.read.ok
     /\ \A i \in DOMAIN cells_call.read.name_list : cells_call.read.name_list[i] = <<>>
     /\ \A i \in DOMAIN cells_call.read.bank_list : cells_call.read.bank_list[i] = <<>>)
        => /\ cells_call.result.ok
           /\ cells_call.result.name_ranges =
                [k \in 1..cells_call.total_range |-> RowStart + k - 1]
           /\ cells_call.result.bank_ranges = cells_call.result.name_ranges

C16_Witness ==
    /\ cells_call.called
    /\ cells_call.read.ok
    /\ cells_call.read.name_list = <<>>
    /\ cells_call.read.bank_list = <<>>
    /\ cells_call.total_range = MaxCount
    /\ cells_call.result.name_ranges = [k \in 1..MaxCount |-> RowStart + k - 1]

\* C17: the writable rows returned are the first count rows, in increasing
\* order from row 13, whose name cell is absent or empty (row r is list
\* index r - 13); a row whose name cell holds a value is never returned.
C17_WritableRowsAreFirstEmptyNames ==
    (cells_call.called /\ cells_call.read.ok) =>
        LET rows == cells_call.result.name_ranges
            name_list == cells_call.read.name_list
        IN  /\ cells_call.result.ok
            /\ Len(rows) = cells_call.total_range
            /\ IsIncreasing(rows)
            /\ \A k \in DOMAIN rows : rows[k] >= RowStart
            /\ Range(rows) = WritableIn(name_list, RowStart..rows[Len(rows)])

C17_Witness ==
    /\ cells_call.called
    /\ cells_call.read.name_list = <<<<"SETOR">>, <<>>, <<"SETOR">>>>
    /\ cells_call.total_range = 2
    /\ cells_call.result.name_ranges = <<RowStart + 1, RowStart + 3>>

\* C18: the bank-update rows are exactly the returned writable rows whose
\* bank cell is absent, empty or holds another code than the tenant's, in
\* the same order; every bank-update row is a writable row.
C18_BankRowsAreWritableRowsNeedingBank ==
    (cells_call.called /\ cells_call.read.ok) =>
        LET bank_list == cells_call.read.bank_list
            Needs(r) == LET i == r - RowStart + 1
                        IN  \/ i > Len(bank_list)
                            \/ bank_list[i] = <<>>
                            \/ bank_list[i] # <<cells_call.dana_used>>
        IN  /\ cells_call.result.bank_ranges =
                    SelectSeq(cells_call.result.name_ranges, Needs)
            /\ Range(cells_call.result.bank_ranges) \subseteq
                    Range(cells_call.result.name_ranges)

C18_Witness ==
    /\ cells_call.called
    /\ cells_call.read.name_list = <<<<"SETOR">>>>
    /\ cells_call.read.bank_list = <<<<"BCA">>, <<"BCA">>, <<"BRI">>>>
    /\ cells_call.dana_used = "BCA"
    /\ cells_call.result.name_ranges = <<RowStart + 1, RowStart + 2>>
    /\ cells_call.result.bank_ranges = <<RowStart + 2>>

\* C19: every row the allocator returns lies within the range the reader
\* reads, rows 13 to 5002 (here RowStart to RowEnd), whatever the table
\* holds and whatever the count.
C19_RowsWithinRange ==
    cells_call.called =>
        /\ Range(cells_call.result.name_ranges) \subseteq RowStart..RowEnd
        /\ Range(cells_call.result.bank_ranges) \subseteq RowStart..RowEnd

C34_AllocationHasCountRows ==
    (cells_call.called /\ cells_call.result.ok /\ cells_call.total_range >= 1) =>
        LET rows == cells_call.result.name_ranges
        IN  /\ Len(rows) = cells_call.total_range
            /\ Cardinality({rows[k] : k \in DOMAIN rows}) = cells_call.total_range
            /\ \A j, k \in DOMAIN rows : j < k => rows[j] < rows[k]

C34_Witness ==
    /\ cells_call.called
    /\ cells_call.result.ok
    /\ cells_call.read.name_list = <<<<>>, <<"SETOR">>>>
    /\ cells_call.read.bank_list = <<<<"BRI">>>>
    /\ cells_call.total_range = MaxCount
    /\ cells_call.result.name_ranges = <<RowStart>> \o [k \in 1..(MaxCount - 1) |-> RowStart + 1 + k]

\* C37: when both columns come back without any value, what the allocator
\* returns for a count n >= 1 without scanning is what its scan loop returns
\* on the same two empty columns.
C37_ShortcutEqualsScan ==
    (/\ cells_call.called
     /\ cells_call.read.ok
     /\ cells_call.read.bank_list = <<>>
     /\ cells_call.read.name_list = <<>>
     /\ cells_call.total_range >= 1)
        => /\ cells_call.result.ok
           /\ <<cells_call.result.name_ranges, cells_call.result.bank_ranges>>
                = ScanCells(RowStart, RowStart + cells_call.total_range,
                            cells_call.dana_used, cells_call.total_range,
                            <<>>, <<>>, <<>>, <<>>)

C37_Witness ==
    /\ cells_call.called
    /\ cells_call.read = [ok |-> TRUE, bank_list |-> <<>>, name_list |-> <<>>]
    /\ cells_call.dana_used = "BRI"
    /\ cells_call.total_range = MaxCount
    /\ cells_call.result.ok
    /\ Len(cells_call.result.bank_ranges) = MaxCount
    /\ cells_call.result.bank_ranges[MaxCount] = RowStart + MaxCount - 1

(***************************************************************************)
(* Properties of the target reader                                         *)
(***************************************************************************)

\* the errors of the transport class, as their texts
TransportErrors ==
    {<<"getaddrinfo", "failed">>, <<"Connection", "reset">>,
     <<"connection", "refused">>, <<"Remote", "end", "closed", "connection">>}

\* C21: a read of the target spreadsheet makes at most 3 attempts and always
\* returns: it sleeps 1s and then 2s and tries again only after an error of
\* the transport class, returns a failure at the first other error, and
\* returns a failure at the third error instead of trying a fourth time.
C21_ReadRetriesAreBounded ==
    /\ [](/\ read_call.attempts <= 3
          /\ read_call.slept = SubSeq(<<1, 2>>, 1, Len(read_call.slept))
          /\ \A k \in DOMAIN read_call.slept : read_call.errors[k] \in TransportErrors
          /\ \A k \in DOMAIN read_call.errors :
                read_call.errors[k] \notin TransportErrors
                    => k = Len(read_call.errors) /\ read_call.result = "failed"
          /\ Len(read_call.errors) = 3 => read_call.result = "failed"
          /\ read_call.result = "none" => Len(read_call.slept) = read_call.attempts)
    /\ <>(read_call.result # "none")

C21_Witness ==
    /\ read_call.result = "failed"
    /\ read_call.attempts = 3
    /\ read_call.slept = <<1, 2>>
    /\ \A k \in 1..3 : read_call.errors[k] \in TransportErrors

(***************************************************************************)
(* Properties of the row formatter                                         *)
(***************************************************************************)

\* the rows the allocator assigned to the latest direct call of
\* preparing_data
AssignedRows ==
    GetCellsToInput(fmt_call.config.dana_used, Len(fmt_call.values), fmt_call.read)

\* C22: a label that contains KIRIM DANA KE gets the transfer destination
\* appended after one space; otherwise a label that contains KIRIM UANG is
\* replaced by KIRIM DANA KE <bank> <name> <destination> when the destination
\* bank and the destination name are both configured; every other label is
\* left as it is.
C22_LabelRule ==
    (fmt_call.called /\ fmt_call.result.ok) =>
        \A i \in DOMAIN fmt_call.values :
            LET label == fmt_call.values[i].cells[1]
                config == fmt_call.config
                written == fmt_call.result.values[i].cells[1]
            IN  IF Contains(label, <<"KIRIM", "DANA", "KE">>)
                THEN written = Append(label, config.transfer_destination)
                ELSE IF /\ Contains(label, <<"KIRIM", "UANG">>)
                        /\ config.bank_destination # ""
                        /\ config.bank_name_destination # ""
                THEN written = <<"KIRIM", "DANA", "KE", config.bank_destination,
                                 config.bank_name_destination, config.transfer_destination>>
                ELSE written = label

C22_Witness ==
    /\ fmt_call.called
    /\ fmt_call.result.ok
    /\ Len(fmt_call.values) = 2
    /\ fmt_call.values[1].cells[1] = <<"KIRIM", "DANA", "KE">>
    /\ fmt_call.values[2].cells[1] = <<"KIRIM", "UANG">>
    /\ fmt_call.result.values[1].cells[1] = <<"KIRIM", "DANA", "KE", "LAYER 1">>
    /\ fmt_call.result.values[2].cells[1] = <<"KIRIM", "DANA", "KE", "BNI", "ANDI", "LAYER 1">>

\* C23: for row i of the input there is one instruction at column E of the
\* i-th assigned row carrying the whole row, followed at once by one
\* instruction at column B of that row (time, bank code, "-") exactly when
\* the confirmation cell of the row is empty; the rows come in input order
\* and no two of them go to the same row of the target.
C23_RowInstructionsInOrder ==
    (fmt_call.called /\ fmt_call.result.ok) =>
        LET rows == AssignedRows.name_ranges
            values == fmt_call.values
            RECURSIVE Expected(_)
            Expected(i) ==
                IF i > Len(values) THEN <<>>
                ELSE <<[range |-> <<"E", rows[i]>>,
                        values |-> fmt_call.result.values[i].cells]>>
                     \o (IF values[i].cells[3] = <<>>
                         THEN <<[range |-> <<"B", rows[i]>>,
                                 values |-> <<<<"HH:MM:SS">>, <<fmt_call.config.dana_used>>,
                                              <<"-">>>>]>>
                         ELSE <<>>)
                     \o Expected(i + 1)
            IsRowInstruction(d) == d.range[1] # "C"
        IN  /\ Len(values) > 0 => Len(rows) = Len(values)
            /\ SelectSeq(fmt_call.result.data, IsRowInstruction) = Expected(1)
            /\ SubSeq(fmt_call.result.data, 1, Len(Expected(1))) = Expected(1)
            /\ \A i, j \in DOMAIN values : i # j => rows[i] # rows[j]
            /\ \A i \in DOMAIN values :
                /\ Len(fmt_call.result.values[i].cells) = Len(values[i].cells)
                /\ \A k \in {3, 4, 5, 7} :
                        fmt_call.result.values[i].cells[k] = values[i].cells[k]

C23_Witness ==
    /\ fmt_call.called
    /\ fmt_call.result.ok
    /\ Len(fmt_call.values) = 2
    /\ fmt_call.values[1].cells[3] # <<>>
    /\ fmt_call.values[2].cells[3] = <<>>
    /\ Len(fmt_call.result.data) >= 3
    /\ fmt_call.result.data[1].range = <<"E", 14>>
    /\ fmt_call.result.data[2].range = <<"E", 15>>
    /\ fmt_call.result.data[3].range = <<"B", 15>>

TxOf(rows) == [i \in DOMAIN rows |-> rows[i].tx]

\* the rows of the latest request that reached the allocator and were not
\* written to the target spreadsheet
Unwritten == IF req.delivered THEN <<>> ELSE req.handed

\* C1: once a request has finished, every row that was handed to the
\* allocator and was not written is in the sheet's error data exactly once,
\* whichever way the pipeline failed.
C1_NoSilentDataLoss ==
    \A t \in TxIds :
        Count(TxOf(ErrorDataGet(sheet_error_data, req.sheet_name)), t)
            = Count(TxOf(Unwritten), t)

\* C2: a batch hands to the allocator the rows aligned with its new ids; if
\* the write of the batch fails those rows are in the sheet's error data
\* afterwards; and the next batch merges the rows the error data holds for
\* its sheet before the allocator runs.
C2_EndToEndReplay ==
    /\ [](req.handed # <<>> =>
            TxOf(SubSeq(req.handed, 1, Len(req.handed) - Len(req.merged)))
                = SelectSeq(tx_call.ids, LAMBDA x : x \notin tx_call.seen_before))
    /\ []((req.sent # <<>> /\ ~req.delivered) =>
            \A i \in DOMAIN req.handed :
                req.handed[i].tx
                    \in Range(TxOf(ErrorDataGet(sheet_error_data, req.sheet_name))))
    /\ [][(req' # req /\ req'.handed # <<>>) =>
            TxOf(req'.merged)
                = TxOf(ErrorDataGet(sheet_error_data, req'.sheet_name))]_vars

\* C25: a batch without a new transaction id, and a batch for a sheet name
\* that has no configuration, end as skipped, which is not an error: the
\* target is neither read nor written, the error data of the request is as
\* it was constructed, and no event goes out.  (A step that is not a
\* configuration request is a request to /on_change: req' names its sheet,
\* and tx_call' its ids when the sheet has a configuration.)
C25_SkippedDoesNothing ==
    [][(cfg_call'.op = "touch" \/ cfg_call' = cfg_call) =>
        LET sheet == req'.sheet_name
            missing == GetSheetConfigByName(config_cache, sheet) = None
            nothing_new ==
                /\ tx_call'.sheet = sheet
                /\ \A i \in DOMAIN tx_call'.ids :
                        tx_call'.ids[i] \in SeenOf(transaction_sets, sheet)
        IN  (missing \/ nothing_new)
                => /\ req'.result = IF missing
                                    THEN "Skipped due to missing configuration"
                                    ELSE "Skipped duplicate transactions"
                   /\ req'.handed = <<>>
                   /\ req'.sent = <<>>
                   /\ ~req'.delivered
                   /\ ~req'.notified
                   /\ sheet_error_data' = NoErrorData]_vars

C25_Witness ==
    /\ req.result = "Skipped duplicate transactions"
    /\ tx_call.sheet = req.sheet_name
    /\ tx_call.ids # <<>>
    /\ tx_call.ret = <<>>
    /\ ~req.notified

\* C26: the data_processed event goes out exactly once for a batch whose
\* batch write succeeded, and not at all for a batch whose write failed or
\* was never attempted.
C26_EventIffDelivered == req.notified <=> req.delivered

\* C27: rows enter the error data of a sheet only when the delivery of a
\* batch of that sheet failed, and the next batch of the sheet takes them:
\* one whose write succeeds has written each of them once, one that fails
\* leaves them in the error data; the rows of other sheets stay.
C27_BufferedRowsConsumedOnce ==
    [][(cfg_call'.op = "touch" \/ cfg_call' = cfg_call) =>
        LET sheet == req'.sheet_name
            before == TxOf(ErrorDataGet(sheet_error_data, sheet))
            after == TxOf(ErrorDataGet(sheet_error_data', sheet))
        IN  /\ \A t \in TxIds :
                Count(after, t) > Count(before, t)
                    => req'.handed # <<>> /\ ~req'.delivered
            /\ \A t \in Range(before) :
                IF req'.delivered
                THEN Count(TxOf(req'.handed), t) = Count(before, t)
                ELSE Count(after, t) >= Count(before, t)
            /\ \A other \in Sheets \ {sheet} :
                ErrorDataGet(sheet_error_data', other)
                    = ErrorDataGet(sheet_error_data, other)]_vars

\* C28: the tracker runs before the configuration is looked up: a batch for
\* a sheet name without a configuration is skipped with its transaction ids
\* recorded in the seen-set of that name.
C28_TrackerBeforeConfig ==
    [][\A data \in OnChangeInputs :
        (/\ GetSheetConfigByName(config_cache, data.sheet_name) = None
         /\ ProcessingData(data))
            => /\ req'.result = "Skipped due to missing configuration"
               /\ Range(data.transaction_id)
                    \subseteq SeenOf(transaction_sets', data.sheet_name)]_vars

(***************************************************************************)
(* Properties of the error data the handlers share                         *)
(***************************************************************************)

\* C29: when the error data holds rows for the sheet, the rows given to the
\* allocator and the formatter for the sheet's next batch are the saved
\* rows, in the order they were saved, followed by the batch's new rows in
\* batch order.
C29_SavedRowsFirst ==
    [][\A slot \in 1..MaxInFlight :
        (/\ handlers[slot].pc = "idle"
         /\ handlers'[slot].pc = "notified"
         /\ ErrorDataHasData(save_error_data, handlers'[slot].sheet_name))
            => TxOf(handlers'[slot].copy_data)
                = TxOf(ErrorDataGet(save_error_data, handlers'[slot].sheet_name))
                    \o TxOf(handlers'[slot].new)]_vars

\* C30: reading and clearing the error data of a sheet is one step among
\* the handlers in flight: the handler that reads takes every row present
\* and leaves none, a handler that finishes removes no row and appends its
\* own when its write raised, and no row is at once in the error data and
\* in a batch, or in two batches.
C30_TakeIsAtomic ==
    /\ [](\A t \in HandlerTx :
            /\ \A slot \in 1..MaxInFlight : Count(TxOf(handlers[slot].copy_data), t) <= 1
            /\ \A sheet \in Sheets :
                    Count(TxOf(ErrorDataGet(save_error_data, sheet)), t) <= 1
            /\ Cardinality({slot \in 1..MaxInFlight :
                                t \in Range(TxOf(handlers[slot].copy_data))})
               + Cardinality({sheet \in Sheets :
                                t \in Range(TxOf(ErrorDataGet(save_error_data, sheet)))})
                    <= 1)
    /\ [][\A slot \in 1..MaxInFlight :
            LET sheet == IF handlers[slot].pc = "idle"
                         THEN handlers'[slot].sheet_name ELSE handlers[slot].sheet_name
                before == ErrorDataGet(save_error_data, sheet)
                after == ErrorDataGet(save_error_data', sheet)
            IN  /\ (handlers[slot].pc = "idle" /\ handlers'[slot].pc = "notified")
                    => /\ TxOf(handlers'[slot].merged) = TxOf(before)
                       /\ after = <<>>
                /\ (handlers[slot].pc = "notified" /\ handlers'[slot].pc = "idle")
                    => \/ after = before
                       \/ after = before \o handlers[slot].copy_data
                /\ \A other \in Sheets \ {sheet} :
                    (handlers'[slot] # handlers[slot])
                        => ErrorDataGet(save_error_data', other)
                            = ErrorDataGet(save_error_data, other)]_vars

C30_Witness ==
    /\ handlers[1].pc = "notified"
    /\ handlers[1].merged # <<>>
    /\ ErrorDataHasData(save_error_data, handlers[1].sheet_name)
    /\ handlers[2].pc = "idle"

\* the bank-code instructions of the latest direct call of preparing_data
\* are one per bank-update row, in the order of those rows, after every row
\* instruction, and no more than there are writable rows
BankCodePerBankRow ==
    LET data == fmt_call.result.data
        IsBankCode(d) == d.range[1] = "C"
        bank_codes == SelectSeq(data, IsBankCode)
    IN  /\ bank_codes =
            [k \in DOMAIN AssignedRows.bank_ranges |->
                [range |-> <<"C", AssignedRows.bank_ranges[k]>>,
                 values |-> <<<<fmt_call.config.dana_used>>>>]]
        /\ \A j, k \in DOMAIN data : (IsBankCode(data[j]) /\ ~IsBankCode(data[k])) => k < j
        /\ Len(bank_codes) <= Len(AssignedRows.name_ranges)

C33_UpdateKeepsIdAndStamp ==
    [][(cfg_call'.op = "update" /\ cfg_call'.status = "ok" /\ now' = now) =>
        LET sheet_id == cfg_call'.sheet_id
            at == {i \in DOMAIN config_cache.sheet_configs :
                        config_cache.sheet_configs[i].sheet_id = sheet_id}
        IN  /\ at # {}
            /\ DOMAIN config_cache'.sheet_configs = DOMAIN config_cache.sheet_configs
            /\ \A i \in DOMAIN config_cache.sheet_configs :
                    /\ config_cache'.sheet_configs[i].sheet_id
                            = config_cache.sheet_configs[i].sheet_id
                    /\ config_cache'.sheet_configs[i].last_accessed
                            = config_cache.sheet_configs[i].last_accessed
            /\ \E i \in at : cfg_call'.result = <<config_cache.sheet_configs[i]>>]_vars

C33_Witness ==
    /\ cfg_call.op = "update" /\ cfg_call.status = "ok"
    /\ cfg_call.config.sheet_id # cfg_call.sheet_id
    /\ cfg_call.result[1].dana_used # cfg_call.config.dana_used
    /\ \E i \in DOMAIN config_cache.sheet_configs :
            /\ config_cache.sheet_configs[i].sheet_id = cfg_call.sheet_id
            /\ config_cache.sheet_configs[i].dana_used = cfg_call.config.dana_used
            /\ config_cache.sheet_configs[i].last_accessed = cfg_call.result[1].last_accessed
            /\ config_cache.sheet_configs[i].last_accessed < now

\* C36: a call of filter_new_transactions for one sheet leaves the seen-set
\* of every other sheet as it was, and returns every id of its list that
\* the sheet itself had not seen, whether or not another sheet has seen it.
C36_SeenSetsPerSheet ==
    [][(tx_call'.op = "filter") =>
        /\ \A other \in Sheets \ {tx_call'.sheet} :
                /\ (other \in DOMAIN transaction_sets') <=> (other \in DOMAIN transaction_sets)
                /\ other \in DOMAIN transaction_sets
                        => transaction_sets'[other] = transaction_sets[other]
        /\ \A t \in {tx_call'.ids[k] : k \in DOMAIN tx_call'.ids} :
                (tx_call'.sheet \notin DOMAIN transaction_sets
                    \/ t \notin transaction_sets[tx_call'.sheet])
                    => \E k \in DOMAIN tx_call'.ret : tx_call'.ret[k] = t]_vars

C36_Witness ==
    /\ tx_call.op = "filter"
    /\ tx_call.sheet = "S2"
    /\ tx_call.seen_before = {}
    /\ tx_call.ret = <<"t1">>
    /\ reported["S1"]["t1"] = 1
    /\ reported["S2"]["t1"] = 1
    /\ transaction_sets = [S1 |-> {"t1"}, S2 |-> {"t1"}]

(***************************************************************************)
(* Properties of the service over time                                     *)
(***************************************************************************)

\* the latest batch found a configuration for its sheet
BatchWasProcessed ==
    req.result \notin {"none", "Skipped due to missing configuration"}

LastAccessedOf(cache, sheet_name) ==
    {cache.sheet_configs[i].last_accessed :
        i \in {k \in DOMAIN cache.sheet_configs :
                    cache.sheet_configs[k].sheet_name = sheet_name}}

\* C32: a batch received for a configured sheet stamps the sheet's
\* configuration with the time of the batch, also when none of its ids is
\* new, and a configuration whose latest batch is no older than the
\* expiration window is not removed by the sweep.
C32_BatchKeepsTenantAlive ==
    /\ [](BatchWasProcessed
            => \A stamp \in LastAccessedOf(config_cache, req.sheet_name) : stamp >= req.at)
    /\ [][(/\ BatchWasProcessed
           /\ LastAccessedOf(config_cache, req.sheet_name) # {}
           /\ now - req.at <= ExpirationMinutes)
            => LastAccessedOf(config_cache', req.sheet_name) # {}]_vars

C32_Witness ==
    /\ req.result = "Skipped duplicate transactions"
    /\ req.at = ExpirationMinutes
    /\ now = MaxTime
    /\ cfg_call.op = "sweep"
    /\ LastAccessedOf(config_cache, req.sheet_name) = {req.at}
    /\ Len(config_cache.sheet_configs) = 1

\* the configuration the handlers format with
HandlerConfig ==
    MergedConfig(GetSheetConfigByName(config_cache, "S1"), config_cache.global_settings)

\* C38: the error data holds rows as they were received, and a row given to
\* a batch again after a failed write carries the label one formatting of
\* the received row gives, as it would have after a first write that
\* succeeded.
C38_SavedRowsAreRaw ==
    /\ \A sheet \in DOMAIN save_error_data :
        \A k \in DOMAIN save_error_data[sheet] :
            save_error_data[sheet][k].cells = FullCells(save_error_data[sheet][k].tx)
    /\ \A slot \in 1..MaxInFlight :
        \A k \in DOMAIN handlers[slot].copy_data :
            handlers[slot].copy_data[k].cells[NameCell]
                = FormatName(HandlerConfig, FullCells(handlers[slot].copy_data[k].tx)[NameCell])

\* C39: a batch whose write raised adds its rows to the error data of its
\* own sheet and of no other, and the rows a batch hands to the allocator
\* and the formatter are its own new rows and the rows saved under its own
\* sheet, never rows saved under another sheet, which stay where they are.
C39_TenantsIsolated ==
    [][\A slot \in 1..MaxInFlight :
        /\ (handlers[slot].pc = "notified" /\ handlers'[slot].pc = "idle")
            => \A other \in Sheets \ {handlers[slot].sheet_name} :
                    (other \in DOMAIN save_error_data' <=> other \in DOMAIN save_error_data)
                    /\ (other \in DOMAIN save_error_data
                            => save_error_data'[other] = save_error_data[other])
        /\ (handlers[slot].pc = "idle" /\ handlers'[slot].pc = "notified")
            => LET sheet == handlers'[slot].sheet_name
                   own == IF sheet \in DOMAIN save_error_data
                          THEN save_error_data[sheet] ELSE <<>>
               IN  /\ TxOf(handlers'[slot].copy_data)
                        = TxOf(handlers'[slot].new) \o TxOf(own)
                   /\ \A other \in Sheets \ {sheet} :
                        (other \in DOMAIN save_error_data' <=> other \in DOMAIN save_error_data)
                        /\ (other \in DOMAIN save_error_data
                                => save_error_data'[other] = save_error_data[other])]_vars

C39_Witness ==
    /\ handlers[1].pc = "notified"
    /\ handlers[1].sheet_name = "S2"
    /\ handlers[1].merged = <<>>
    /\ Len(handlers[1].copy_data) = 1
    /\ "S1" \in DOMAIN save_error_data
    /\ Len(save_error_data["S1"]) = 2

(***************************************************************************)
(* Properties of the one-time tokens                                       *)
(***************************************************************************)
\* C40: over any sequence of validate_token, use_token and add-with-token
\* requests, use_token returns True at most once per token and a token adds
\* at most one configuration, usage_left stays in {0, 1} and never
\* increases, and a request rejected for a duplicate sheet name leaves the
\* token as it was
C40_TokenSpentOnce ==
    /\ [](\A t \in TokenInputs : token_manager.uses[t] <= 1)
    /\ [](\A t \in Tokens :
            /\ token_manager.tokens[t].usage_left \in {0, 1}
            /\ Len(token_manager.tokens[t].sheet_ids) <= 1)
    /\ [][\A t \in Tokens :
            token_manager'.tokens[t].usage_left <= token_manager.tokens[t].usage_left]_vars
    /\ [][(token_manager'.call.op = "add" /\ token_manager'.call.detail = "already exists")
            => /\ token_manager'.tokens = token_manager.tokens
               /\ token_manager'.uses = token_manager.uses]_vars

\* one token has added its configuration and is spent; the other was offered
\* with the same sheet name, was refused, and is still unspent
C40_Witness ==
    /\ token_manager.uses["k1"] = 1
    /\ token_manager.tokens["k1"].usage_left = 0
    /\ Len(token_manager.tokens["k1"].sheet_ids) = 1
    /\ GetSheetConfigByName(config_cache, "S1") # None
    /\ token_manager.call =
         [op |-> "add", token |-> "k2", ok |-> FALSE, detail |-> "already exists"]
    /\ cfg_call.config.sheet_name = "S1"
    /\ token_manager.tokens["k2"].usage_left = 1

=============================================================================
